---- MODULE Spec2Model ----
(***************************************************************************)
(* Sydney RentSmart: the affordability helpers (lib/suburbs), the          *)
(* recommendation endpoint (api/recommend) and the affordability endpoint  *)
(* (api/affordability), as a state machine over an immutable dataset.      *)
(*                                                                         *)
(* Numbers.  JavaScript numbers are modelled as integers at a fixed scale: *)
(*   - incomes and dataset rents: whole dollars;                           *)
(*   - per-person rents: tenths of a dollar  (suffix T);                   *)
(*   - percentages and scores: tenths of a percent (suffix T);             *)
(*   - the bedrooms / sharing query parameters: tenths (2.5 is 25).        *)
(* null, undefined and NaN are three sentinels below every modelled value. *)
(*                                                                         *)
(* The enrichment gateways (api/directions, api/isochrone, api/overpass-poi*)
(* and api/commute) and the chat gateway (api/chat) are route modules of   *)
(* their own: each keeps its own module-level cache and shares no state    *)
(* with the others, so a behaviour follows one of them.  Their handlers    *)
(* are asynchronous and are split where they await the provider.           *)
(*                                                                         *)
(* Two browser components are followed the same way: the commute effect of *)
(* the results page (app/results) and sendMessage of the chat widget       *)
(* (components/ChatBot).                                                   *)
(***************************************************************************)
EXTENDS Integers, Sequences, FiniteSets, TLC

VARIABLES
    suburbs,   \* the reference dataset, in Object.values order (immutable)
    op,        \* the operation last invoked, with its arguments
    result,    \* what that operation returned (a value or an HTTP response)
    gateway,   \* the route module whose module-level state is followed
    cache,     \* that module's cache: a Map from key to {data, timestamp}
    now,       \* Date.now(), in milliseconds
    pending,   \* the requests of that module suspended at an await
    client     \* the browser component followed: its React state and refs

\* The state of a route module that calls a provider.
gatewayVars == <<gateway, cache, now, pending>>

vars == <<suburbs, op, result, gateway, cache, now, pending, client>>

(***************************************************************************)
(* JavaScript values                                                       *)
(***************************************************************************)
Null == -1001
Undefined == -1002
NaN == -1003

IsNumber(x) == x \notin {Null, Undefined, NaN}

\* null where a string is expected (a string is a sequence of characters).
NullStr == <<"<null>">>

\* Math.round(num / den) for den > 0: the nearest integer, halves upward.
MathRound(num, den) == (2 * num + den) \div (2 * den)

Min(a, b) == IF a <= b THEN a ELSE b
Max(a, b) == IF a >= b THEN a ELSE b

\* a > b as JavaScript evaluates it: false as soon as an operand is NaN.
JsGt(a, b) == a # NaN /\ b # NaN /\ a > b

(***************************************************************************)
(* Affordability helpers (lib/suburbs)                                     *)
(***************************************************************************)
\* Mutation of getRentStressRating: the 25 and 30 boundaries made exclusive
\* on the wrong side (<= 25 comfortable, < 30 manageable).
getRentStressRating_lower(percentageT) ==
    IF percentageT # NaN /\ percentageT <= 250 THEN "comfortable"
    ELSE IF percentageT # NaN /\ percentageT < 300 THEN "manageable"
    ELSE IF percentageT # NaN /\ percentageT <= 400 THEN "stressed"
    ELSE "severe"

getRentStressRating(percentageT) ==
    IF percentageT # NaN /\ percentageT < 250 THEN "comfortable"
    ELSE IF percentageT # NaN /\ percentageT <= 300 THEN "manageable"
    ELSE IF percentageT # NaN /\ percentageT <= 400 THEN "stressed"
    ELSE "severe"

\* Mutation of calculateRentStress: the percentage truncated (Math.floor)
\* instead of rounded.
calculateRentStress_floor(weeklyIncome, weeklyRentT) ==
    IF weeklyIncome <= 0
    THEN [percentage |-> 1000, rating |-> "severe"]
    ELSE LET percentage ==
                 IF IsNumber(weeklyRentT)
                 THEN (100 * weeklyRentT) \div weeklyIncome
                 ELSE NaN
         IN  [percentage |-> percentage, rating |-> getRentStressRating(percentage)]

\* Mutation of calculateRentStress: the income guard dropped for income 0
\* (x / 0 is Infinity, which rates severe).
calculateRentStress_noguard(weeklyIncome, weeklyRentT) ==
    IF weeklyIncome < 0
    THEN [percentage |-> 1000, rating |-> "severe"]
    ELSE IF weeklyIncome = 0
    THEN [percentage |-> NaN, rating |-> "severe"]
    ELSE LET percentage ==
                 IF IsNumber(weeklyRentT)
                 THEN MathRound(100 * weeklyRentT, weeklyIncome)
                 ELSE NaN
         IN  [percentage |-> percentage, rating |-> getRentStressRating(percentage)]

\* percentage = Math.round((weeklyRent / weeklyIncome) * 1000) / 10; a rent
\* of undefined or NaN makes the percentage NaN.
calculateRentStress(weeklyIncome, weeklyRentT) ==
    IF weeklyIncome <= 0
    THEN [percentage |-> 1000, rating |-> "severe"]
    ELSE LET percentage ==
                 IF IsNumber(weeklyRentT)
                 THEN MathRound(100 * weeklyRentT, weeklyIncome)
                 ELSE NaN
         IN  [percentage |-> percentage, rating |-> getRentStressRating(percentage)]

(***************************************************************************)
(* Reference dataset (data/sydney_suburbs.json, read through lib/suburbs)  *)
(*                                                                         *)
(* A suburb is a record; its rent fields are the function `rent` from the  *)
(* field name to dollars or Null.  Strings that the code inspects          *)
(* (suburb_name, postcode, suburb_key, the workplace text) are sequences   *)
(* of one-character strings.                                               *)
(***************************************************************************)
RentFields ==
    {"median_rent_overall", "median_rent_1bed", "median_rent_2bed",
     "median_rent_3bed", "median_rent_4bed", "median_rent_5+bed"}

\* suburb[key]: the value of a rent field, undefined when there is no such
\* field.
Field(suburb, key) ==
    IF key \in DOMAIN suburb.rent THEN suburb.rent[key] ELSE Undefined

\* Mutation of medianRentKey: an off-by-one in the "5+" threshold.
medianRentKey_gt5(bedroomsT) ==
    IF bedroomsT > 50 THEN "median_rent_5+bed"
    ELSE IF bedroomsT = 10 THEN "median_rent_1bed"
    ELSE IF bedroomsT = 20 THEN "median_rent_2bed"
    ELSE IF bedroomsT = 30 THEN "median_rent_3bed"
    ELSE IF bedroomsT = 40 THEN "median_rent_4bed"
    ELSE "median_rent_<other>bed"

\* `median_rent_${bedrooms >= 5 ? "5+" : String(bedrooms)}bed`.  Every count
\* below 5 other than 1, 2, 3, 4 (2.5, say) names a field no suburb has; all
\* of those are the one name "median_rent_<other>bed".
medianRentKey(bedroomsT) ==
    IF bedroomsT >= 50 THEN "median_rent_5+bed"
    ELSE IF bedroomsT = 10 THEN "median_rent_1bed"
    ELSE IF bedroomsT = 20 THEN "median_rent_2bed"
    ELSE IF bedroomsT = 30 THEN "median_rent_3bed"
    ELSE IF bedroomsT = 40 THEN "median_rent_4bed"
    ELSE "median_rent_<other>bed"

getAllSuburbs == suburbs

(***************************************************************************)
(* resolveSharedRent (api/recommend)                                       *)
(***************************************************************************)
NoRent == [resolved |-> FALSE]

\* const perPerson = Math.round((rent / sharingCount) * 10) / 10
PerPersonT(rent, sharingCountT) ==
    IF IsNumber(rent) THEN MathRound(100 * rent, sharingCountT) ELSE NaN

\* targetBeds of the shared mode.
TargetBeds(sharingCountT, shareBedroom) ==
    IF sharingCountT = 20 /\ shareBedroom THEN 10 ELSE Min(sharingCountT, 40)

\* Mutation of MinBeds: no guardrail, every group may fall back to 1 bedroom.
MinBeds_none(sharingCountT, shareBedroom) == 10

\* Minimum bedroom guardrails.
MinBeds(sharingCountT, shareBedroom) ==
    IF sharingCountT = 20 /\ shareBedroom THEN 10
    ELSE IF sharingCountT >= 40 THEN 30
    ELSE IF sharingCountT >= 30 THEN 20
    ELSE 10

\* for (let beds = targetBeds; beds >= minBeds; beds--): the first count whose
\* field is not null (an undefined field is not null), or Null.
RECURSIVE FallbackBeds(_, _, _)
FallbackBeds(suburb, beds, minBeds) ==
    IF beds < minBeds THEN Null
    ELSE IF Field(suburb, medianRentKey(beds)) # Null THEN beds
    ELSE FallbackBeds(suburb, beds - 10, minBeds)

\* Mutation of resolveSharedRent: the solo branch also falls back to the
\* overall median when the requested field is null.
resolveSharedRent_solofallback(suburb, userBedrooms, sharingCountT, shareBedroom) ==
    IF sharingCountT <= 10
    THEN LET key  == IF userBedrooms # Null
                     THEN medianRentKey(userBedrooms)
                     ELSE "median_rent_overall"
             raw  == Field(suburb, key)
             rent == IF raw = Null THEN suburb.rent["median_rent_overall"] ELSE raw
         IN  IF rent = Null THEN NoRent
             ELSE [resolved |-> TRUE, totalRent |-> rent,
                   perPersonRent |-> IF IsNumber(rent) THEN 10 * rent ELSE rent,
                   rentEstimated |-> raw = Null,
                   bedsUsed |-> IF userBedrooms # Null THEN userBedrooms ELSE 0]
    ELSE LET targetBeds == TargetBeds(sharingCountT, shareBedroom)
             minBeds    == MinBeds(sharingCountT, shareBedroom)
             bedsUsed   == FallbackBeds(suburb, targetBeds, minBeds)
         IN  IF bedsUsed = Null THEN NoRent
             ELSE LET rent == Field(suburb, medianRentKey(bedsUsed))
                  IN  [resolved |-> TRUE, totalRent |-> rent,
                       perPersonRent |-> PerPersonT(rent, sharingCountT),
                       rentEstimated |-> bedsUsed # targetBeds,
                       bedsUsed |-> bedsUsed]

\* Mutation of resolveSharedRent: the per-person rent truncated instead of
\* rounded to one decimal.
resolveSharedRent_trunc(suburb, userBedrooms, sharingCountT, shareBedroom) ==
    IF sharingCountT <= 10
    THEN LET key  == IF userBedrooms # Null
                     THEN medianRentKey(userBedrooms)
                     ELSE "median_rent_overall"
             rent == Field(suburb, key)
         IN  IF rent = Null THEN NoRent
             ELSE [resolved |-> TRUE, totalRent |-> rent,
                   perPersonRent |-> IF IsNumber(rent) THEN 10 * rent ELSE rent,
                   rentEstimated |-> FALSE,
                   bedsUsed |-> IF userBedrooms # Null THEN userBedrooms ELSE 0]
    ELSE LET targetBeds == TargetBeds(sharingCountT, shareBedroom)
             minBeds    == MinBeds(sharingCountT, shareBedroom)
             bedsUsed   == FallbackBeds(suburb, targetBeds, minBeds)
         IN  IF bedsUsed = Null THEN NoRent
             ELSE LET rent == Field(suburb, medianRentKey(bedsUsed))
                  IN  [resolved |-> TRUE, totalRent |-> rent,
                       perPersonRent |->
                           IF IsNumber(rent)
                           THEN (100 * rent) \div sharingCountT ELSE NaN,
                       rentEstimated |-> bedsUsed # targetBeds,
                       bedsUsed |-> bedsUsed]

\* userBedrooms is Null or a count in tenths; sharingCountT is the group size
\* in tenths.  perPersonRent is in tenths of a dollar (in solo mode it is the
\* rent itself, undefined included).
resolveSharedRent(suburb, userBedrooms, sharingCountT, shareBedroom) ==
    IF sharingCountT <= 10
    THEN LET key  == IF userBedrooms # Null
                     THEN medianRentKey(userBedrooms)
                     ELSE "median_rent_overall"
             rent == Field(suburb, key)
         IN  IF rent = Null THEN NoRent
             ELSE [resolved |-> TRUE, totalRent |-> rent,
                   perPersonRent |-> IF IsNumber(rent) THEN 10 * rent ELSE rent,
                   rentEstimated |-> FALSE,
                   bedsUsed |-> IF userBedrooms # Null THEN userBedrooms ELSE 0]
    ELSE LET targetBeds == TargetBeds(sharingCountT, shareBedroom)
             minBeds    == MinBeds(sharingCountT, shareBedroom)
             bedsUsed   == FallbackBeds(suburb, targetBeds, minBeds)
         IN  IF bedsUsed = Null THEN NoRent
             ELSE LET rent == Field(suburb, medianRentKey(bedsUsed))
                  IN  [resolved |-> TRUE, totalRent |-> rent,
                       perPersonRent |-> PerPersonT(rent, sharingCountT),
                       rentEstimated |-> bedsUsed # targetBeds,
                       bedsUsed |-> bedsUsed]

(***************************************************************************)
(* Bounds of the model                                                     *)
(***************************************************************************)
MaxIncome == 12      \* calculateRentStress: incomes -1 .. MaxIncome dollars
MaxRentT == 40       \* calculateRentStress: rents 0 .. MaxRentT tenths
MaxPctT == 410       \* getRentStressRating: percentages 0 .. MaxPctT tenths
RentBase == 500      \* dataset rents are RentBase .. RentBase + MaxRentStep
MaxRentStep == 1

RentValues == {Null} \cup {RentBase + k : k \in 0..MaxRentStep}

\* One record of the dataset.  The object key of a record is its suburb_key,
\* "<name>_<postcode>".
MkSuburb(name, postcode, lat, lng, rent, bonds, trend) ==
    [suburb_key   |-> (IF name = NullStr THEN <<>> ELSE name) \o <<"_">> \o postcode,
     postcode     |-> postcode,
     suburb_name  |-> name,
     lat          |-> lat,
     lng          |-> lng,
     rent         |-> rent,
     total_bonds  |-> bonds,
     rent_trend   |-> trend]

NoTrend == [y \in {} |-> 0]

\* A dataset used where the dataset plays no part.
SampleSuburb ==
    MkSuburb(<<"a", "b">>, <<"2", "0", "0", "0">>, 0, 0,
             [k \in RentFields |-> RentBase], 0, NoTrend)

(***************************************************************************)
(* Operations: the library functions, called directly                      *)
(***************************************************************************)
NoOp == [name |-> "none"]

\* No browser component is followed: the endpoints are called directly.
NoClient == [name |-> "none"]

\* No route module with a cache is loaded: the library and the dataset
\* endpoints keep no state between calls.
NoGateway ==
    /\ gateway = "none"
    /\ cache = <<>>
    /\ now = 0
    /\ pending = <<>>

CalcStress(weeklyIncome, weeklyRentT) ==
    /\ op' = [name |-> "calculateRentStress",
              weeklyIncome |-> weeklyIncome, weeklyRentT |-> weeklyRentT]
    /\ result' = calculateRentStress(weeklyIncome, weeklyRentT)
    /\ UNCHANGED <<suburbs, client, gatewayVars>>

GetRating(percentageT) ==
    /\ op' = [name |-> "getRentStressRating", percentage |-> percentageT]
    /\ result' = getRentStressRating(percentageT)
    /\ UNCHANGED <<suburbs, client, gatewayVars>>

\* resolveSharedRent on a record of the dataset, with the arguments the
\* endpoint can pass: bedrooms null or in [1, 5], sharing in [1, 4].
ResolveBedrooms == {Null, 10, 20, 25, 30, 40, 50}
ResolveSharing == {10, 20, 25, 30, 40}

Resolve(i, userBedrooms, sharingCountT, shareBedroom) ==
    /\ op' = [name |-> "resolveSharedRent", suburb |-> i,
              userBedrooms |-> userBedrooms, sharingCount |-> sharingCountT,
              shareBedroom |-> shareBedroom]
    /\ result' = resolveSharedRent(suburbs[i], userBedrooms, sharingCountT,
                                   shareBedroom)
    /\ UNCHANGED <<suburbs, client, gatewayVars>>

(***************************************************************************)
(* Specifications of the library functions                                 *)
(***************************************************************************)
InitStress ==
    /\ suburbs = <<SampleSuburb>>
    /\ op = NoOp
    /\ client = NoClient
    /\ result = Null
    /\ NoGateway

NextStress ==
    \/ \E weeklyIncome \in -1..MaxIncome, weeklyRentT \in 0..MaxRentT :
           CalcStress(weeklyIncome, weeklyRentT)
    \/ \E percentageT \in (0..MaxPctT) \cup {NaN} : GetRating(percentageT)

SpecStress == InitStress /\ [][NextStress]_vars

\* The rent fields of the record resolveSharedRent is applied to: every
\* combination of null and known rents for 1 to 4 bedrooms; the overall and
\* 5+ medians null or known.
ResolveRents ==
    {rent \in [RentFields -> RentValues] :
         /\ rent["median_rent_overall"] \in {Null, RentBase}
         /\ rent["median_rent_5+bed"] \in {Null, RentBase}}

InitResolve ==
    /\ suburbs \in {<<MkSuburb(<<"a">>, <<"2", "0", "0", "0">>, 0, 0, rent, 0, NoTrend)>> :
                        rent \in ResolveRents}
    /\ op = NoOp
    /\ client = NoClient
    /\ result = Null
    /\ NoGateway

NextResolve ==
    \E i \in 1..Len(suburbs), userBedrooms \in ResolveBedrooms,
       sharingCountT \in ResolveSharing, shareBedroom \in BOOLEAN :
        Resolve(i, userBedrooms, sharingCountT, shareBedroom)

SpecResolve == InitResolve /\ [][NextResolve]_vars

(***************************************************************************)
(* Properties of the affordability helpers                                 *)
(***************************************************************************)
\* C4: for every weekly income > 0 and weekly rent > 0, calculateRentStress
\* returns the percentage nearest to rent / income * 100 at one decimal
\* (halves upward), and its rating is getRentStressRating of that percentage.
C4_StressPercentage ==
    (op.name = "calculateRentStress" /\ op.weeklyIncome > 0 /\ op.weeklyRentT > 0) =>
        /\ (2 * result.percentage - 1) * op.weeklyIncome <= 200 * op.weeklyRentT
        /\ 200 * op.weeklyRentT < (2 * result.percentage + 1) * op.weeklyIncome
        /\ result.rating = getRentStressRating(result.percentage)

\* A call whose exact percentage lies strictly above the midpoint between two
\* tenths: it is rounded upward.
C4_Witness ==
    /\ op.name = "calculateRentStress"
    /\ op.weeklyIncome > 0 /\ op.weeklyRentT > 0
    /\ 2 * ((100 * op.weeklyRentT) % op.weeklyIncome) > op.weeklyIncome
    /\ result.percentage = (100 * op.weeklyRentT) \div op.weeklyIncome + 1

Rank(rating) ==
    CASE rating = "comfortable" -> 0
      [] rating = "manageable" -> 1
      [] rating = "stressed" -> 2
      [] rating = "severe" -> 3

\* C5: getRentStressRating maps a percentage below 25 to comfortable, 25 to 30
\* (inclusive) to manageable, above 30 to 40 (inclusive) to stressed, above 40
\* to severe, and the rating never improves as the percentage grows.
C5_RatingTiers ==
    (op.name = "getRentStressRating" /\ op.percentage # NaN) =>
        LET p == op.percentage
        IN  /\ (p < 250) => result = "comfortable"
            /\ (250 <= p /\ p <= 300) => result = "manageable"
            /\ (300 < p /\ p <= 400) => result = "stressed"
            /\ (400 < p) => result = "severe"
            /\ \A q \in 0..p : Rank(getRentStressRating(q)) <= Rank(result)

\* The boundary 25.0 has been rated, and rated manageable.
C5_Witness ==
    /\ op.name = "getRentStressRating"
    /\ op.percentage = 250
    /\ result = "manageable"

(***************************************************************************)
(* Properties of resolveSharedRent                                         *)
(***************************************************************************)
\* The median rent of a bedroom count as the dataset states it: counts 1 to 4
\* have their own field, 5 and more share the "5+" field, any other count has
\* no field.
RentOfBeds(suburb, bedsT) ==
    CASE bedsT = 10 -> suburb.rent["median_rent_1bed"]
      [] bedsT = 20 -> suburb.rent["median_rent_2bed"]
      [] bedsT = 30 -> suburb.rent["median_rent_3bed"]
      [] bedsT = 40 -> suburb.rent["median_rent_4bed"]
      [] bedsT >= 50 -> suburb.rent["median_rent_5+bed"]
      [] OTHER -> Undefined

\* C7: for group size 1 resolveSharedRent returns the field of the requested
\* bedroom count (the overall median when none is requested) unchanged as
\* total and per-person rent, not estimated; it returns nothing exactly when
\* that field is null, whatever the other fields hold.
C7_SoloRent ==
    (op.name = "resolveSharedRent" /\ op.sharingCount = 10) =>
        LET suburb == suburbs[op.suburb]
            raw == IF op.userBedrooms = Null
                   THEN suburb.rent["median_rent_overall"]
                   ELSE RentOfBeds(suburb, op.userBedrooms)
        IN  /\ result.resolved <=> raw # Null
            /\ result.resolved =>
                   /\ result.totalRent = raw
                   /\ result.perPersonRent = IF IsNumber(raw) THEN 10 * raw ELSE raw
                   /\ ~result.rentEstimated

\* A solo request for 2 bedrooms on a record with no 2-bedroom median but with
\* a 1-bedroom and an overall median: nothing is resolved.
C7_Witness ==
    /\ op.name = "resolveSharedRent"
    /\ op.sharingCount = 10
    /\ op.userBedrooms = 20
    /\ suburbs[op.suburb].rent["median_rent_2bed"] = Null
    /\ suburbs[op.suburb].rent["median_rent_1bed"] # Null
    /\ suburbs[op.suburb].rent["median_rent_overall"] # Null
    /\ ~result.resolved

GroupSizes == {20, 30, 40}

ClaimTarget(n, shareBedroom) ==
    IF n = 20 /\ shareBedroom THEN 10 ELSE IF n <= 40 THEN n ELSE 40

ClaimFloor(n, shareBedroom) ==
    IF n = 20 THEN 10 ELSE IF n = 30 THEN 20 ELSE 30

\* C8: for a group of n = 2, 3 or 4, resolveSharedRent targets min(n, 4)
\* bedrooms (1 for a pair sharing a bedroom); the per-person rent is the
\* median rent of the bedroom count used, divided by n and rounded to one
\* decimal; the requested bedroom count does not change the result.
C8_SharedRent ==
    (op.name = "resolveSharedRent" /\ op.sharingCount \in GroupSizes) =>
        LET suburb == suburbs[op.suburb]
            n      == op.sharingCount
            target == ClaimTarget(n, op.shareBedroom)
        IN  /\ RentOfBeds(suburb, target) # Null =>
                   result.resolved /\ result.bedsUsed = target
            /\ result.resolved =>
                   /\ result.totalRent = RentOfBeds(suburb, result.bedsUsed)
                   /\ (2 * result.perPersonRent - 1) * n <= 200 * result.totalRent
                   /\ 200 * result.totalRent < (2 * result.perPersonRent + 1) * n
            /\ \A b \in ResolveBedrooms :
                   resolveSharedRent(suburb, b, n, op.shareBedroom) = result

\* Three people on a 3-bedroom median that does not divide by 3: the
\* per-person rent is rounded upward.
C8_Witness ==
    /\ op.name = "resolveSharedRent"
    /\ op.sharingCount = 30
    /\ op.userBedrooms = 10
    /\ result.resolved
    /\ result.bedsUsed = 30
    /\ (10 * result.totalRent) % 3 = 2
    /\ result.perPersonRent = (10 * result.totalRent) \div 3 + 1

\* C9: when the target bedroom count has no data the largest count below it
\* that has data and is not below the floor is used (floor 1 for a pair, 2 for
\* three people, 3 for four); rentEstimated holds exactly when the count used
\* is not the target; nothing is resolved when every count from the target
\* down to the floor is null.
C9_Fallback ==
    (op.name = "resolveSharedRent" /\ op.sharingCount \in GroupSizes) =>
        LET suburb == suburbs[op.suburb]
            n      == op.sharingCount
            target == ClaimTarget(n, op.shareBedroom)
            floor  == ClaimFloor(n, op.shareBedroom)
            usable == {b \in {10, 20, 30, 40} :
                          /\ floor <= b /\ b <= target
                          /\ RentOfBeds(suburb, b) # Null}
        IN  /\ result.resolved <=> usable # {}
            /\ result.resolved =>
                   /\ result.bedsUsed \in usable
                   /\ \A b \in usable : b <= result.bedsUsed
                   /\ result.rentEstimated <=> result.bedsUsed # target

\* Four people, no 4-bedroom median, a 3-bedroom median: the 3-bedroom rent
\* is used and flagged as estimated.
C9_Witness ==
    /\ op.name = "resolveSharedRent"
    /\ op.sharingCount = 40
    /\ suburbs[op.suburb].rent["median_rent_4bed"] = Null
    /\ result.resolved
    /\ result.bedsUsed = 30
    /\ result.rentEstimated

\* Four people, neither a 4- nor a 3-bedroom median, but a 2-bedroom median:
\* the floor stops the fallback and nothing is resolved.
C9_FloorReached ==
    /\ op.name = "resolveSharedRent"
    /\ op.sharingCount = 40
    /\ suburbs[op.suburb].rent["median_rent_2bed"] # Null
    /\ ~result.resolved

(***************************************************************************)
(* Strings                                                                 *)
(***************************************************************************)
\* String.prototype.toLowerCase, on the characters of the model.
LowerChar(c) == IF c = "A" THEN "a" ELSE IF c = "B" THEN "b" ELSE c

toLowerCase(str) == [i \in 1..Len(str) |-> LowerChar(str[i])]

\* String.prototype.trim: leading and trailing blanks removed.
RECURSIVE trimStart(_)
trimStart(str) ==
    IF str # <<>> /\ Head(str) = " " THEN trimStart(Tail(str)) ELSE str

RECURSIVE trimEnd(_)
trimEnd(str) ==
    IF str # <<>> /\ str[Len(str)] = " "
    THEN trimEnd(SubSeq(str, 1, Len(str) - 1)) ELSE str

trim(str) == trimEnd(trimStart(str))

startsWith(str, q) == Len(q) <= Len(str) /\ SubSeq(str, 1, Len(q)) = q

includes(str, q) ==
    \E i \in 0..(Len(str) - Len(q)) : SubSeq(str, i + 1, i + Len(q)) = q

IsDigit(c) == c \in {"0", "1", "2", "3", "4", "5", "6", "7", "8", "9"}

\* /^\d{4}$/.test(str)
IsPostcodeText(str) == Len(str) = 4 /\ \A i \in 1..4 : IsDigit(str[i])

(***************************************************************************)
(* Data access (lib/suburbs)                                               *)
(***************************************************************************)
\* The least index of a set of indexes of the dataset, 0 for the empty set:
\* what Array.prototype.find and a key lookup come to, 0 standing for
\* undefined.
FirstIndex(indexes) ==
    IF indexes = {} THEN 0
    ELSE CHOOSE i \in indexes : \A j \in indexes : i <= j

\* The index of the record found, 0 for undefined: the record whose object
\* key is the postcode if there is one, else the first record of the postcode.
getSuburbByPostcode(postcode) ==
    LET direct == FirstIndex({i \in 1..Len(suburbs) : suburbs[i].suburb_key = postcode})
    IN  IF direct # 0 THEN direct
        ELSE FirstIndex({i \in 1..Len(suburbs) : suburbs[i].postcode = postcode})

\* The list a query is matched into: 1 exact name, 2 name starts with it,
\* 3 name contains it, 4 postcode starts with it, 0 no match.
MatchList(s, q) ==
    LET name == IF s.suburb_name = NullStr THEN <<>> ELSE toLowerCase(s.suburb_name)
    IN  IF name = q THEN 1
        ELSE IF startsWith(name, q) THEN 2
        ELSE IF includes(name, q) THEN 3
        ELSE IF startsWith(s.postcode, q) THEN 4
        ELSE 0

\* Mutation of searchSuburbs: the starts-with matches returned ahead of the
\* exact matches.
searchSuburbs_prefixFirst(query) ==
    LET q == trim(toLowerCase(query))
        all == getAllSuburbs
    IN  IF q = <<>> THEN all
        ELSE SelectSeq(all, LAMBDA s : MatchList(s, q) = 2)
             \o SelectSeq(all, LAMBDA s : MatchList(s, q) = 1)
             \o SelectSeq(all, LAMBDA s : MatchList(s, q) = 3)
             \o SelectSeq(all, LAMBDA s : MatchList(s, q) = 4)

searchSuburbs(query) ==
    LET q == trim(toLowerCase(query))
        all == getAllSuburbs
    IN  IF q = <<>> THEN all
        ELSE SelectSeq(all, LAMBDA s : MatchList(s, q) = 1)
             \o SelectSeq(all, LAMBDA s : MatchList(s, q) = 2)
             \o SelectSeq(all, LAMBDA s : MatchList(s, q) = 3)
             \o SelectSeq(all, LAMBDA s : MatchList(s, q) = 4)

(***************************************************************************)
(* Commute estimates (lib/commute)                                         *)
(*                                                                         *)
(* A coordinate is a whole number of ten-thousandths of a degree counted   *)
(* from a local origin, and the great-circle distance is taken on the      *)
(* plane: a hundredth of a degree is 6371 * pi / 18000 = 1.112 km along    *)
(* both axes.  Distances are whole tenths of a kilometre, rounded down.    *)
(***************************************************************************)
\* The integer square root of x, known to be at least lo and below hi.
RECURSIVE SqrtIn(_, _, _)
SqrtIn(x, lo, hi) ==
    IF hi - lo <= 1 THEN lo
    ELSE LET mid == (lo + hi) \div 2
         IN  IF mid * mid <= x THEN SqrtIn(x, mid, hi) ELSE SqrtIn(x, lo, mid)

\* haversineKm in tenths of a kilometre: 11.12 tenths per hundredth of a
\* degree, squared 124; a hundredth of a degree is 100 units, squared 10000.
haversineKm(lat1, lng1, lat2, lng2) ==
    LET squared == (124 * ((lat2 - lat1) * (lat2 - lat1)
                           + (lng2 - lng1) * (lng2 - lng1))) \div 10000
    IN  SqrtIn(squared, 0, squared + 1)

\* What the ! operator takes for false among the numbers of the model.
Falsy(x) == x \in {Null, Undefined, NaN, 0}

NoEstimate == [estimated |-> FALSE, distanceKm |-> Null, estimatedMinutes |-> Null]

\* Math.max(5, Math.round(dist * 2.5)) for a distance in tenths of a km.
CommuteMinutes(distT) == Max(5, MathRound(25 * distT, 100))

\* Both ends are looked up again by postcode: each is the record
\* getSuburbByPostcode finds, and equal postcodes are answered 5 minutes.
estimateCommuteTime(fromPostcode, toPostcode) ==
    LET from == getSuburbByPostcode(fromPostcode)
        to   == getSuburbByPostcode(toPostcode)
    IN  IF from = 0 \/ to = 0 THEN NoEstimate
        ELSE IF \/ Falsy(suburbs[from].lat) \/ Falsy(suburbs[from].lng)
                \/ Falsy(suburbs[to].lat) \/ Falsy(suburbs[to].lng)
        THEN NoEstimate
        ELSE IF fromPostcode = toPostcode
        THEN [estimated |-> TRUE, distanceKm |-> 0, estimatedMinutes |-> 5]
        ELSE LET dist == haversineKm(suburbs[from].lat, suburbs[from].lng,
                                     suburbs[to].lat, suburbs[to].lng)
             IN  [estimated |-> TRUE, distanceKm |-> dist,
                  estimatedMinutes |-> CommuteMinutes(dist)]

(***************************************************************************)
(* GET /api/recommend                                                      *)
(*                                                                         *)
(* A numeric query parameter is modelled by what the handler makes of it:  *)
(* Null when it is absent or empty, NaN when Number() cannot parse it,     *)
(* else its value (income in dollars; bedrooms and sharing in tenths).     *)
(* A text parameter is NullStr when absent.                                *)
(***************************************************************************)
MAX_RESULTS == 500

Ok == "ok"

\* Mutation of ValidateRecommend: income 0 let through (income < 0 rejected).
ValidateRecommend_nonneg(incomeP, bedroomsP) ==
    IF incomeP = Null THEN "Missing required param: income (weekly $)"
    ELSE IF incomeP = NaN \/ incomeP < 0
    THEN "income must be a positive number (weekly $)"
    ELSE IF bedroomsP # Null /\ (bedroomsP = NaN \/ bedroomsP < 10 \/ bedroomsP > 50)
    THEN "bedrooms must be between 1 and 5"
    ELSE Ok

\* The validation block: the error message of the 400 answer, or Ok.
ValidateRecommend(incomeP, bedroomsP) ==
    IF incomeP = Null THEN "Missing required param: income (weekly $)"
    ELSE IF incomeP = NaN \/ incomeP <= 0
    THEN "income must be a positive number (weekly $)"
    ELSE IF bedroomsP # Null /\ (bedroomsP = NaN \/ bedroomsP < 10 \/ bedroomsP > 50)
    THEN "bedrooms must be between 1 and 5"
    ELSE Ok

\* sharingStr ? Math.min(4, Math.max(1, Number(sharingStr) || 1)) : 1
SharingCount(sharingP) ==
    IF sharingP = Null THEN 10
    ELSE Min(40, Max(10, IF sharingP = NaN \/ sharingP = 0 THEN 10 ELSE sharingP))

NoWorkplace ==
    [postcode |-> NullStr, name |-> NullStr, lat |-> Null, lng |-> Null,
     suburb_key |-> NullStr]

WorkplaceOf(match) ==
    [postcode |-> match.postcode, name |-> match.suburb_name,
     lat |-> match.lat, lng |-> match.lng, suburb_key |-> match.suburb_key]

\* Mutation of ResolveWorkplace: the last match taken instead of the first.
ResolveWorkplace_last(workplaceStr) ==
    IF workplaceStr = NullStr \/ workplaceStr = <<>> THEN NoWorkplace
    ELSE LET trimmed == trim(workplaceStr)
             matches == searchSuburbs(trimmed)
         IN  IF Len(matches) > 0 THEN WorkplaceOf(matches[Len(matches)])
             ELSE NoWorkplace

\* Resolve workplace to a specific suburb (name-first, postcode-fallback).
ResolveWorkplace(workplaceStr) ==
    IF workplaceStr = NullStr \/ workplaceStr = <<>> THEN NoWorkplace
    ELSE LET trimmed == trim(workplaceStr)
             matches == searchSuburbs(trimmed)
         IN  IF Len(matches) > 0 THEN WorkplaceOf(matches[1])
             ELSE IF IsPostcodeText(trimmed)
             THEN LET direct == getSuburbByPostcode(trimmed)
                  IN  IF direct # 0 THEN WorkplaceOf(suburbs[direct])
                      ELSE NoWorkplace
             ELSE NoWorkplace

\* Object.keys(suburb.rent_trend).sort(): first and last year.
OldestYear(trend) == CHOOSE y \in DOMAIN trend : \A z \in DOMAIN trend : y <= z
NewestYear(trend) == CHOOSE y \in DOMAIN trend : \A z \in DOMAIN trend : y >= z

\* Whether a trend penalty applies: at least two years, oldest > 0 and a
\* relative increase above 0.1.
HasTrendPenalty(trend) ==
    /\ Cardinality(DOMAIN trend) >= 2
    /\ trend[OldestYear(trend)] > 0
    /\ 10 * (trend[NewestYear(trend)] - trend[OldestYear(trend)])
           > trend[OldestYear(trend)]

\* Math.round((stress.percentage - supplyBonus + trendPenalty) * 10) / 10 in
\* tenths, with supplyBonus = Math.min(5, total_bonds / 500) and trendPenalty
\* = Math.min(5, increase * 10), over the common denominator 50 * oldest.
AffordabilityScoreT(percentageT, suburb) ==
    IF percentageT = NaN THEN NaN
    ELSE LET trend   == suburb.rent_trend
             penalty == HasTrendPenalty(trend)
             oldest  == IF penalty THEN trend[OldestYear(trend)] ELSE 1
             rise    == IF penalty THEN trend[NewestYear(trend)] - oldest ELSE 0
             bonus50 == Min(2500, suburb.total_bonds)    \* supplyBonus * 500
             penaltyO == Min(50 * oldest, 100 * rise)    \* trendPenalty * 10 * oldest
         IN  MathRound(50 * oldest * percentageT - oldest * bonus50 + 50 * penaltyO,
                       50 * oldest)

\* One entry of the scored list.  nearest_station is an attachment that takes
\* no part in filtering, scoring or ordering; commute_label is commute_minutes
\* as a text.
ScoredSuburb(suburb, income, sharingCountT, resolved, workplacePostcode) ==
    LET stress   == calculateRentStress(income, resolved.perPersonRent)
        soloRent == IF sharingCountT > 10
                    THEN IF suburb.rent["median_rent_1bed"] # Null
                         THEN suburb.rent["median_rent_1bed"]
                         ELSE suburb.rent["median_rent_overall"]
                    ELSE Null
        est      == IF workplacePostcode # NullStr /\ workplacePostcode # <<>>
                    THEN estimateCommuteTime(suburb.postcode, workplacePostcode)
                    ELSE NoEstimate
    IN  [suburb_key          |-> suburb.suburb_key,
         postcode            |-> suburb.postcode,
         suburb_name         |-> suburb.suburb_name,
         lat                 |-> suburb.lat,
         lng                 |-> suburb.lng,
         median_rent         |-> resolved.perPersonRent,
         rent_stress_pct     |-> stress.percentage,
         affordability_score |-> AffordabilityScoreT(stress.percentage, suburb),
         rating              |-> stress.rating,
         total_bonds         |-> suburb.total_bonds,
         commute_minutes     |-> est.estimatedMinutes,
         sharing_mode        |-> sharingCountT,
         total_rent          |-> resolved.totalRent,
         per_person_rent     |-> resolved.perPersonRent,
         solo_rent           |-> soloRent,
         savings_vs_solo     |-> IF soloRent = Null THEN Null
                                 ELSE IF IsNumber(resolved.perPersonRent)
                                 THEN MathRound(10 * soloRent - resolved.perPersonRent, 10)
                                 ELSE NaN,
         rent_estimated      |-> resolved.rentEstimated]

\* Whether the loop pushes an entry for the suburb: a rent was resolved and
\* stress.percentage > 100 is false.
IsScored(suburb, income, bedrooms, sharingCountT, shareBedroom) ==
    LET resolved == resolveSharedRent(suburb, bedrooms, sharingCountT, shareBedroom)
    IN  /\ resolved.resolved
        /\ ~JsGt(calculateRentStress(income, resolved.perPersonRent).percentage, 1000)

\* Array.prototype.sort with (a, b) => a.rent_stress_pct - b.rent_stress_pct:
\* a stable sort; an entry goes before the first one the comparator puts
\* after it.
RECURSIVE InsertByStress(_, _)
InsertByStress(x, sorted) ==
    IF sorted = <<>> THEN <<x>>
    ELSE IF JsGt(Head(sorted).rent_stress_pct, x.rent_stress_pct)
    THEN <<x>> \o sorted
    ELSE <<Head(sorted)>> \o InsertByStress(x, Tail(sorted))

RECURSIVE SortFrom(_, _, _)
SortFrom(list, i, sorted) ==
    IF i > Len(list) THEN sorted
    ELSE SortFrom(list, i + 1, InsertByStress(list[i], sorted))

\* Mutation of SortByStress: the list left in dataset order.
SortByStress_unsorted(list) == list

SortByStress(list) == SortFrom(list, 1, <<>>)

Error(status, message) == [status |-> status, error |-> message]

RecommendResponse(incomeP, bedroomsP, sharingP, shareBedroom, workplaceStr) ==
    LET invalid == ValidateRecommend(incomeP, bedroomsP)
    IN  IF invalid # Ok THEN Error(400, invalid)
        ELSE
        LET sharingCountT == SharingCount(sharingP)
            workplace == ResolveWorkplace(workplaceStr)
            kept   == SelectSeq(getAllSuburbs,
                          LAMBDA s : IsScored(s, incomeP, bedroomsP, sharingCountT,
                                              shareBedroom))
            scored == [i \in 1..Len(kept) |->
                          ScoredSuburb(kept[i], incomeP, sharingCountT,
                              resolveSharedRent(kept[i], bedroomsP, sharingCountT,
                                                shareBedroom),
                              workplace.postcode)]
            sorted == SortByStress(scored)
            top    == SubSeq(sorted, 1, Min(Len(sorted), MAX_RESULTS))
        IN  [status               |-> 200,
             income_weekly        |-> incomeP,
             bedrooms             |-> bedroomsP,       \* Null stands for "overall"
             sharing_mode         |-> sharingCountT,
             workplace            |-> IF workplace.name # NullStr THEN workplace.name
                                      ELSE workplaceStr,
             workplace_postcode   |-> workplace.postcode,
             workplace_suburb_key |-> workplace.suburb_key,
             workplace_lat        |-> workplace.lat,
             workplace_lng        |-> workplace.lng,
             total_matching       |-> Len(scored),
             showing              |-> Len(top),
             suburbs              |-> top]

RecommendGET(incomeP, bedroomsP, sharingP, shareBedroom, workplaceStr) ==
    /\ op' = [name |-> "GET /recommend", income |-> incomeP, bedrooms |-> bedroomsP,
              sharing |-> sharingP, share_bedroom |-> shareBedroom,
              workplace |-> workplaceStr]
    /\ result' = RecommendResponse(incomeP, bedroomsP, sharingP, shareBedroom,
                                   workplaceStr)
    /\ UNCHANGED <<suburbs, client, gatewayVars>>

(***************************************************************************)
(* GET /api/affordability                                                  *)
(***************************************************************************)
AffordabilityResponse(postcodeStr, incomeP, bedroomsP) ==
    IF postcodeStr = NullStr \/ postcodeStr = <<>> \/ incomeP = Null
    THEN Error(400, "Missing required params: postcode, income")
    ELSE IF incomeP = NaN \/ incomeP < 0
    THEN Error(400, "income must be a non-negative number (weekly $)")
    ELSE IF bedroomsP # Null /\ (bedroomsP = NaN \/ bedroomsP < 10 \/ bedroomsP > 50)
    THEN Error(400, "bedrooms must be between 1 and 5")
    ELSE LET found == getSuburbByPostcode(postcodeStr)
         IN  IF found = 0 THEN Error(404, "Postcode not found in Sydney data")
             ELSE
             LET suburb     == suburbs[found]
                 rentKey    == IF bedroomsP # Null THEN medianRentKey(bedroomsP)
                               ELSE "median_rent_overall"
                 medianRent == Field(suburb, rentKey)
                 stress     == calculateRentStress(incomeP,
                                   IF IsNumber(medianRent) THEN 10 * medianRent
                                   ELSE medianRent)
             IN  IF medianRent = Null THEN Error(404, "No rent data")
                 ELSE [status          |-> 200,
                       postcode        |-> suburb.postcode,
                       suburb_name     |-> suburb.suburb_name,
                       bedrooms        |-> bedroomsP,
                       weekly_income   |-> incomeP,
                       median_rent     |-> medianRent,
                       rent_stress_pct |-> stress.percentage,
                       rating          |-> stress.rating]

AffordabilityGET(postcodeStr, incomeP, bedroomsP) ==
    /\ op' = [name |-> "GET /affordability", postcode |-> postcodeStr,
              income |-> incomeP, bedrooms |-> bedroomsP]
    /\ result' = AffordabilityResponse(postcodeStr, incomeP, bedroomsP)
    /\ UNCHANGED <<suburbs, client, gatewayVars>>

Search(query) ==
    /\ op' = [name |-> "searchSuburbs", query |-> query]
    /\ result' = searchSuburbs(query)
    /\ UNCHANGED <<suburbs, client, gatewayVars>>

(***************************************************************************)
(* Datasets and inputs of the endpoint specifications                      *)
(***************************************************************************)
MaxSuburbs == 2      \* records in the dataset
MaxQueryLen == 2     \* characters in a search text

Rents(overall, bed1, bed2, bed3, bed4, bed5) ==
    [k \in RentFields |->
        CASE k = "median_rent_overall" -> overall
          [] k = "median_rent_1bed" -> bed1
          [] k = "median_rent_2bed" -> bed2
          [] k = "median_rent_3bed" -> bed3
          [] k = "median_rent_4bed" -> bed4
          [] k = "median_rent_5+bed" -> bed5]

\* The records datasets are made of: two that share a postcode, one without a
\* name, names that are equal to, start with and contain the same text; rents
\* missing for some bedroom counts; bond counts below and above the cap of
\* the supply bonus; trends with and without a rise above 10%.
SuburbPool ==
    <<MkSuburb(<<"A", "b">>, <<"2", "0", "0", "0">>, 100, 100,
               Rents(RentBase, RentBase - 100, RentBase, Null, Null, Null),
               0, (2020 :> 400 @@ 2024 :> 500)),
      MkSuburb(<<"a">>, <<"2", "2", "0", "0">>, 200, 500,
               Rents(RentBase + 1, Null, RentBase + 1, RentBase + 1, RentBase, RentBase),
               3000, NoTrend),
      MkSuburb(<<"B", "a">>, <<"2", "0", "0", "0">>, 400, 200,
               Rents(Null, RentBase - 200, Null, Null, Null, Null),
               250, (2023 :> 500 @@ 2024 :> 520)),
      MkSuburb(NullStr, <<"2", "2", "2", "0">>, Null, Null,
               Rents(RentBase, RentBase + 200, Null, RentBase, Null, Null),
               1000, (2024 :> 500))>>

\* Every dataset of 1 to MaxSuburbs distinct records of the pool, in every
\* order.
Datasets ==
    UNION {{[i \in 1..n |-> SuburbPool[order[i]]] :
               order \in {o \in [1..n -> 1..Len(SuburbPool)] :
                             \A i, j \in 1..n : i # j => o[i] # o[j]}} :
           n \in 1..MaxSuburbs}

RecommendIncomes == {Null, NaN, -1, 0, 400, 1000}
RecommendBedrooms == {Null, NaN, 0, 10, 20, 25, 50, 60}
RecommendSharing == {Null, 20, 25, 40}

QueryChars == {"a", "B", " ", "2"}
\* Every text of at most MaxQueryLen characters, a text blank on both sides,
\* a full postcode of the dataset and one of no record.
Queries ==
    UNION {[1..n -> QueryChars] : n \in 0..MaxQueryLen}
        \cup {<<" ", "a", " ">>, <<"2", "0", "0", "0">>, <<"9", "9", "9", "9">>}
WorkplaceTexts == Queries \cup {NullStr}
Postcodes ==
    {NullStr, <<>>, <<"2", "0", "0", "0">>, <<"2", "2", "0", "0">>,
     <<"2", "2", "2", "0">>, <<"9", "9", "9", "9">>}

InitDataset ==
    /\ suburbs \in Datasets
    /\ op = NoOp
    /\ client = NoClient
    /\ result = Null
    /\ NoGateway

\* GET /recommend over every combination of the numeric parameters.
NextRecommend ==
    \E incomeP \in RecommendIncomes, bedroomsP \in RecommendBedrooms,
       sharingP \in RecommendSharing, shareBedroom \in BOOLEAN :
        RecommendGET(incomeP, bedroomsP, sharingP, shareBedroom, NullStr)

SpecRecommend == InitDataset /\ [][NextRecommend]_vars

\* searchSuburbs, and GET /recommend resolving a workplace text.
NextSearch ==
    \/ \E query \in Queries : Search(query)
    \/ \E workplaceStr \in WorkplaceTexts :
           RecommendGET(1000, Null, Null, FALSE, workplaceStr)

SpecSearch == InitDataset /\ [][NextSearch]_vars

\* GET /affordability, and calculateRentStress for incomes of at most 0.
NextAffordability ==
    \/ \E postcodeStr \in Postcodes, incomeP \in RecommendIncomes,
          bedroomsP \in RecommendBedrooms :
           AffordabilityGET(postcodeStr, incomeP, bedroomsP)
    \/ \E weeklyIncome \in -1..0, weeklyRentT \in 0..MaxRentT :
           CalcStress(weeklyIncome, weeklyRentT)

SpecAffordability == InitDataset /\ [][NextAffordability]_vars

(***************************************************************************)
(* Properties of GET /recommend                                            *)
(***************************************************************************)
IsRecommend200 == op.name = "GET /recommend" /\ result.status = 200

Affordable ==
    {i \in 1..Len(suburbs) :
        LET resolved == resolveSharedRent(suburbs[i], op.bedrooms,
                                          SharingCount(op.sharing), op.share_bedroom)
        IN  /\ resolved.resolved
            /\ IsNumber(resolved.totalRent)
            /\ LET pct == calculateRentStress(op.income, resolved.perPersonRent).percentage
               IN  IsNumber(pct) /\ pct <= 1000}

ExactlyAffordable ==
    /\ {e.suburb_key : e \in {result.suburbs[i] : i \in 1..Len(result.suburbs)}}
           = {suburbs[i].suburb_key : i \in Affordable}
    /\ Len(result.suburbs) = Cardinality(Affordable)
    /\ \A i \in 1..Len(result.suburbs) :
           /\ IsNumber(result.suburbs[i].rent_stress_pct)
           /\ result.suburbs[i].rent_stress_pct <= 1000
    /\ result.total_matching = Cardinality(Affordable)

\* C2: for every valid request the result set holds exactly the records with
\* a resolved rent figure and a rent-stress percentage of at most 100, every
\* entry has rent_stress_pct <= 100, and total_matching counts those records.
C2_ExactlyAffordable == IsRecommend200 => ExactlyAffordable

IsCount(paramT) == paramT = Null \/ paramT % 10 = 0

\* The same statement for whole-number bedrooms and sharing parameters only.
C2_WholeNumberParams ==
    (IsRecommend200 /\ IsCount(op.bedrooms) /\ IsCount(op.sharing)) =>
        ExactlyAffordable

BadBedrooms(bedroomsP) ==
    bedroomsP # Null /\ (bedroomsP = NaN \/ bedroomsP < 10 \/ bedroomsP > 50)

\* C3 as stated: 400 exactly when income is missing, unparseable or negative,
\* or bedrooms is given and outside 1..5; otherwise a ranked list.
C3_NonNegativeIncome ==
    op.name = "GET /recommend" =>
        /\ result.status = 400 <=>
               \/ op.income = Null \/ op.income = NaN \/ op.income < 0
               \/ BadBedrooms(op.bedrooms)
        /\ result.status \in {200, 400}

\* C3 amended: 400 exactly when income is missing, unparseable, negative or
\* zero, or bedrooms is given and unparseable or outside 1..5; otherwise 200
\* with a ranked list.
C3_PositiveIncome ==
    op.name = "GET /recommend" =>
        /\ result.status = 400 <=>
               \/ op.income = Null \/ op.income = NaN \/ op.income <= 0
               \/ BadBedrooms(op.bedrooms)
        /\ result.status \in {200, 400}
        /\ result.status = 200 =>
               /\ result.showing = Len(result.suburbs)
               /\ result.income_weekly = op.income

\* A request with income=0 and acceptable bedrooms was answered 400.
C3_Witness ==
    /\ op.name = "GET /recommend"
    /\ op.income = 0
    /\ ~BadBedrooms(op.bedrooms)
    /\ result.status = 400

(***************************************************************************)
(* Properties of GET /affordability                                        *)
(***************************************************************************)
\* The rent figure the endpoint reads for a postcode: the requested field of
\* the first record of that postcode; Null when there is no such record.
RentDataOf(postcodeStr, bedroomsP) ==
    LET records == {i \in 1..Len(suburbs) : suburbs[i].postcode = postcodeStr}
    IN  IF records = {} THEN Null
        ELSE LET first == CHOOSE i \in records : \A j \in records : i <= j
             IN  IF bedroomsP = Null THEN suburbs[first].rent["median_rent_overall"]
                 ELSE RentOfBeds(suburbs[first], bedroomsP)

\* C6: for every income <= 0 calculateRentStress returns 100% and severe;
\* GET /affordability with income=0 answers 200 with rent_stress_pct = 100 and
\* rating severe for every postcode that has rent data.
C6_ZeroIncome ==
    /\ (op.name = "calculateRentStress" /\ op.weeklyIncome <= 0) =>
           result.percentage = 1000 /\ result.rating = "severe"
    /\ (/\ op.name = "GET /affordability"
        /\ op.income = 0
        /\ ~BadBedrooms(op.bedrooms)
        /\ RentDataOf(op.postcode, op.bedrooms) # Null) =>
           /\ result.status = 200
           /\ result.rent_stress_pct = 1000
           /\ result.rating = "severe"

\* GET /affordability with income=0 on a postcode with a 2-bedroom median.
C6_Witness ==
    /\ op.name = "GET /affordability"
    /\ op.income = 0
    /\ op.bedrooms = 20
    /\ result.status = 200
    /\ IsNumber(result.median_rent)
    /\ result.rent_stress_pct = 1000

\* The parameters GET /affordability rejects: postcode or income missing,
\* income unparseable or negative, bedrooms given and unparseable or outside
\* 1..5.
BadAffordabilityParams ==
    \/ op.postcode = NullStr \/ op.postcode = <<>>
    \/ op.income = Null \/ op.income = NaN \/ op.income < 0
    \/ BadBedrooms(op.bedrooms)

\* The postcode is not in the dataset, or its first record has no rent figure
\* for the requested bedroom count (the overall median when none is asked).
NoRentFigure ==
    LET found == getSuburbByPostcode(op.postcode)
    IN  \/ found = 0
        \/ ~IsNumber(Field(suburbs[found],
                           IF op.bedrooms = Null THEN "median_rent_overall"
                           ELSE medianRentKey(op.bedrooms)))

AffordabilityContract ==
    /\ result.status = (IF BadAffordabilityParams THEN 400
                        ELSE IF NoRentFigure THEN 404
                        ELSE 200)
    /\ result.status = 200 =>
           /\ IsNumber(result.rent_stress_pct)
           /\ IsNumber(result.median_rent)
           /\ result.rating = getRentStressRating(result.rent_stress_pct)

\* C19: GET /affordability answers 400 for missing postcode or income, an
\* invalid income or bedrooms outside 1..5, whatever the postcode; otherwise
\* 404 exactly when the postcode is unknown or the rent figure for the
\* requested bedroom count (the overall median when none is requested) is
\* missing; otherwise 200 with a numeric rent_stress_pct and a rating.
C19_AffordabilityStatus ==
    op.name = "GET /affordability" => AffordabilityContract

\* The same statement for whole-number bedroom counts only.
C19_WholeBedrooms ==
    (op.name = "GET /affordability" /\ IsCount(op.bedrooms)) =>
        AffordabilityContract

\* Whole-number requests answered 404 for a missing bedroom figure.
C19_MissingFigure ==
    /\ op.name = "GET /affordability"
    /\ op.bedrooms = 50
    /\ getSuburbByPostcode(op.postcode) # 0
    /\ result.status = 404

(***************************************************************************)
(* Properties of searchSuburbs                                             *)
(***************************************************************************)
\* How a suburb matches a query (lower-cased and trimmed): 1 its name equals
\* it, 2 its name only starts with it, 3 its name only contains it, 4 only
\* its postcode starts with it, 0 not at all.  A suburb without a name has no
\* name to match.
MatchRank(s, q) ==
    LET named == s.suburb_name # NullStr
        name  == IF named THEN toLowerCase(s.suburb_name) ELSE <<>>
    IN  IF named /\ name = q THEN 1
        ELSE IF named /\ startsWith(name, q) THEN 2
        ELSE IF named /\ includes(name, q) THEN 3
        ELSE IF startsWith(s.postcode, q) THEN 4
        ELSE 0

InPriorityOrder(list, q) ==
    /\ \A i, j \in 1..Len(list) :
           i < j => MatchRank(list[i], q) <= MatchRank(list[j], q)
    /\ \A k \in 1..Len(suburbs) :
           Cardinality({i \in 1..Len(list) : list[i] = suburbs[k]})
               = IF MatchRank(suburbs[k], q) > 0 THEN 1 ELSE 0

\* The record GET /recommend must resolve a workplace text to: the first
\* record of the dataset among those of the best match rank.
FirstBest(q) ==
    LET matching == {k \in 1..Len(suburbs) : MatchRank(suburbs[k], q) > 0}
    IN  CHOOSE k \in matching :
            \A m \in matching :
                \/ MatchRank(suburbs[k], q) < MatchRank(suburbs[m], q)
                \/ MatchRank(suburbs[k], q) = MatchRank(suburbs[m], q) /\ k <= m

WorkplaceIsFirstMatch(q) ==
    IF \E k \in 1..Len(suburbs) : MatchRank(suburbs[k], q) > 0
    THEN /\ result.workplace_suburb_key = suburbs[FirstBest(q)].suburb_key
         /\ result.workplace_postcode = suburbs[FirstBest(q)].postcode
         /\ result.workplace_lat = suburbs[FirstBest(q)].lat
         /\ result.workplace_lng = suburbs[FirstBest(q)].lng
    ELSE result.workplace_suburb_key = NullStr

\* C10 as stated: for every query the result lists exact-name matches, then
\* starts-with, then contains, then postcode-prefix matches, each matching
\* suburb once, and GET /recommend takes the first element as the workplace.
C10_PriorityOrder ==
    /\ op.name = "searchSuburbs" =>
           InPriorityOrder(result, trim(toLowerCase(op.query)))
    /\ (IsRecommend200 /\ op.workplace # NullStr /\ op.workplace # <<>>) =>
           WorkplaceIsFirstMatch(trim(toLowerCase(op.workplace)))

\* C10 amended: the same for every query that is not blank; a blank query
\* returns the whole dataset in dataset order, and GET /recommend takes the
\* first element of the list in both cases.
C10_PriorityOrderNonBlank ==
    /\ op.name = "searchSuburbs" =>
           LET q == trim(toLowerCase(op.query))
           IN  IF q # <<>> THEN InPriorityOrder(result, q) ELSE result = suburbs
    /\ (IsRecommend200 /\ op.workplace # NullStr /\ op.workplace # <<>>) =>
           LET q == trim(toLowerCase(op.workplace))
           IN  IF q # <<>> THEN WorkplaceIsFirstMatch(q)
               ELSE result.workplace_suburb_key = suburbs[1].suburb_key

\* A workplace text equal to the name of the second record and a prefix of
\* the name of the first: the second record is the workplace.
C10_Witness ==
    /\ IsRecommend200
    /\ Len(suburbs) = 2
    /\ trim(toLowerCase(op.workplace)) = <<"a">>
    /\ suburbs[1].suburb_name = <<"A", "b">>
    /\ suburbs[2].suburb_name = <<"a">>
    /\ result.workplace_suburb_key = suburbs[2].suburb_key

\* The same for searchSuburbs itself: the exact match is listed first.
C10_SearchWitness ==
    /\ op.name = "searchSuburbs"
    /\ Len(suburbs) = 2
    /\ suburbs[1].suburb_name = <<"A", "b">>
    /\ Len(result) = 2
    /\ result[1].suburb_name = <<"a">>
    /\ result[2].suburb_name = <<"A", "b">>

(***************************************************************************)
(* Properties of the commute estimate of GET /recommend                    *)
(***************************************************************************)
\* The workplace text is, apart from case and surrounding blanks, the name of
\* a record of the dataset.
ExactNameMatch ==
    /\ op.workplace # NullStr
    /\ trim(toLowerCase(op.workplace)) # <<>>
    /\ \E i \in 1..Len(suburbs) :
           /\ suburbs[i].suburb_name # NullStr
           /\ toLowerCase(suburbs[i].suburb_name) = trim(toLowerCase(op.workplace))

\* C11: when the workplace text exactly matches a suburb name, the commute
\* estimate of every candidate of GET /recommend is the estimate between the
\* matched suburb's own coordinates (workplace_lat, workplace_lng of the
\* response) and the candidate's own coordinates, also when several records
\* share one postcode.
C11_OwnCoordinates ==
    (IsRecommend200 /\ ExactNameMatch) =>
        \A i \in 1..Len(result.suburbs) :
            LET entry == result.suburbs[i]
            IN  (~Falsy(entry.lat) /\ ~Falsy(entry.lng)
                 /\ ~Falsy(result.workplace_lat) /\ ~Falsy(result.workplace_lng)) =>
                    entry.commute_minutes =
                        CommuteMinutes(haversineKm(entry.lat, entry.lng,
                                                   result.workplace_lat,
                                                   result.workplace_lng))

\* The same statement over datasets in which no two records share a postcode
\* (what remains of C11 once the lookup by postcode is unambiguous).
C11_DistinctPostcodes ==
    (\A i, j \in 1..Len(suburbs) : i # j => suburbs[i].postcode # suburbs[j].postcode)
        => C11_OwnCoordinates

(***************************************************************************)
(* Enrichment gateways: the cache each route module keeps                  *)
(*                                                                         *)
(* A provider answers with an outcome: kind "ok" (a 2xx answer with a      *)
(* usable body), "empty" (a 2xx answer without the expected member),       *)
(* "malformed" (a 2xx answer whose body is not JSON), "http" (a non-2xx    *)
(* status), "abort" (the timer aborted the call) or "unconfigured" (no     *)
(* key for the provider in the environment).  Durations are in seconds,    *)
(* distances in metres, payload names the body.                            *)
(***************************************************************************)
MaxInFlight == 2     \* requests of the module suspended at a provider call
MaxTicks == 1        \* times the clock advances, by a day or just over

CACHE_TTL_MS == 24 * 60 * 60 * 1000

Message(text, status) == [text |-> text, status |-> status]
Respond(status, body) == [status |-> status, body |-> body]
NoResponse == [status |-> 0]
NullObj == [null |-> TRUE]

Unsettled == [settled |-> FALSE]
Fulfilled(value) == [settled |-> TRUE, ok |-> TRUE, value |-> value]
Rejected(reason) == [settled |-> TRUE, ok |-> FALSE, reason |-> reason]

Outcome(kind, status, payload, duration, distance) ==
    [kind |-> kind, status |-> status, payload |-> payload,
     duration |-> duration, distance |-> distance]

\* Number.prototype.toFixed(digits) of a coordinate, for 2 and 3 digits: the
\* sign and the magnitude rounded to that many decimals.
ToFixed(x, digits) ==
    LET step == IF digits = 3 THEN 10 ELSE 100
        mag  == IF x < 0 THEN -x ELSE x
    IN  <<x < 0, (mag + step \div 2) \div step>>

\* Mutation of getCached: an entry expires when its age reaches the TTL.
getCached_atTtl(key) ==
    IF key \notin DOMAIN cache THEN [found |-> FALSE, expired |-> FALSE]
    ELSE IF now - cache[key].timestamp >= CACHE_TTL_MS
    THEN [found |-> FALSE, expired |-> TRUE]
    ELSE [found |-> TRUE, expired |-> FALSE, data |-> cache[key].data]

\* getCached: found with the data, or not found; expired tells that the
\* entry was there and is deleted by this lookup.
getCached(key) ==
    IF key \notin DOMAIN cache THEN [found |-> FALSE, expired |-> FALSE]
    ELSE IF now - cache[key].timestamp > CACHE_TTL_MS
    THEN [found |-> FALSE, expired |-> TRUE]
    ELSE [found |-> TRUE, expired |-> FALSE, data |-> cache[key].data]

\* cache.delete(key)
CacheDelete(key) == [k \in DOMAIN cache \ {key} |-> cache[k]]

\* Mutation of CacheSet: an entry already there is kept.
CacheSet_keepFirst(key, data) ==
    [k \in DOMAIN cache \cup {key} |->
        IF k \in DOMAIN cache THEN cache[k] ELSE [data |-> data, timestamp |-> now]]

\* cache.set(key, { data, timestamp: Date.now() })
CacheSet(key, data) ==
    [k \in DOMAIN cache \cup {key} |->
        IF k = key THEN [data |-> data, timestamp |-> now] ELSE cache[k]]

HasFreeSlot == \E i \in 1..MaxInFlight : i \notin DOMAIN pending

FreeSlot ==
    CHOOSE i \in 1..MaxInFlight :
        /\ i \notin DOMAIN pending
        /\ \A j \in 1..MaxInFlight : j \notin DOMAIN pending => i <= j

\* The handler suspends at its await: the call is in flight.
Suspend(call) ==
    [i \in DOMAIN pending \cup {FreeSlot} |->
        IF i = FreeSlot THEN call ELSE pending[i]]

\* The handler of the slot has answered.
Resume(slot) == [i \in DOMAIN pending \ {slot} |-> pending[i]]

\* A 4xx/5xx answer given before the cache is looked at.
Reject(name, request, status, message) ==
    /\ op' = [name |-> name, step |-> "receive", request |-> request,
              key |-> <<>>, lookup |-> "none"]
    /\ result' = Error(status, message)
    /\ UNCHANGED <<cache, pending>>

\* "Check cache" and the provider call after it: a found entry is the
\* answer; otherwise the handler suspends at the call, an expired entry
\* having been deleted by the lookup.
CheckCache(name, request, key, call) ==
    LET cached == getCached(key)
    IN  IF cached.found
        THEN /\ op' = [name |-> name, step |-> "receive", request |-> request,
                       key |-> key, lookup |-> "hit"]
             /\ result' = Respond(200, cached.data)
             /\ UNCHANGED <<cache, pending>>
        ELSE /\ HasFreeSlot
             /\ op' = [name |-> name, step |-> "receive", request |-> request,
                       key |-> key,
                       lookup |-> IF cached.expired THEN "expired" ELSE "miss"]
             /\ result' = NoResponse
             /\ cache' = IF cached.expired THEN CacheDelete(key) ELSE cache
             /\ pending' = Suspend(call)

\* "Cache and return", or the catch block, once the provider call settled.
Finish(name, slot, outcome, fetched) ==
    /\ op' = [name |-> name, step |-> "respond", request |-> pending[slot].request,
              key |-> pending[slot].key, lookup |-> "none", outcome |-> outcome]
    /\ IF fetched.ok
       THEN /\ cache' = CacheSet(pending[slot].key, fetched.value)
            /\ result' = Respond(200, fetched.value)
       ELSE /\ cache' = cache
            /\ result' = Error(500, fetched.reason)
    /\ pending' = Resume(slot)

\* Time passes.
Tick(delta) ==
    /\ gateway # "none"
    /\ (now + delta) \div CACHE_TTL_MS <= MaxTicks
    /\ now' = now + delta
    /\ op' = [name |-> "clock", step |-> "tick"]
    /\ result' = NoResponse
    /\ UNCHANGED <<suburbs, client, gateway, cache, pending>>

(***************************************************************************)
(* GET /api/directions                                                     *)
(*                                                                         *)
(* A coordinate parameter is what parseFloat makes of it: NaN when it is   *)
(* missing or not a number.  A text parameter that is missing is Absent.   *)
(***************************************************************************)
Absent == "<absent>"

\* Mutation of ValidateDirections: any travel mode is let through.
ValidateDirections_anyMode(request) ==
    IF NaN \in {request.from_lat, request.from_lng, request.to_lat, request.to_lng}
    THEN Message("Missing or invalid params: from_lat, from_lng, to_lat, to_lng", 0)
    ELSE Message(Ok, 0)

\* The two checks before the cache: the message of the 400 answer, or Ok.
ValidateDirections(request) ==
    LET mode == IF request.mode = Absent THEN "driving" ELSE request.mode
    IN  IF NaN \in {request.from_lat, request.from_lng, request.to_lat, request.to_lng}
        THEN Message("Missing or invalid params: from_lat, from_lng, to_lat, to_lng", 0)
        ELSE IF mode # "driving" /\ mode # "cycling"
        THEN Message("Invalid mode: must be \"driving\" or \"cycling\"", 0)
        ELSE Message(Ok, 0)

directionsCacheKey(fromLat, fromLng, toLat, toLng, mode) ==
    <<ToFixed(fromLat, 3), ToFixed(fromLng, 3), ToFixed(toLat, 3), ToFixed(toLng, 3),
      mode>>

\* Mutation of fetchOrsDirections: an answer without a route is a result.
fetchOrsDirections_emptyOk(outcome) ==
    IF outcome.kind = "abort" THEN Rejected(Message("This operation was aborted", 0))
    ELSE IF outcome.kind = "http"
    THEN Rejected(Message("ORS Directions API", outcome.status))
    ELSE IF outcome.kind = "malformed"
    THEN Rejected(Message("Unexpected token in JSON", 0))
    ELSE Fulfilled([duration_minutes |-> MathRound(outcome.duration, 60),
                    distance_km      |-> MathRound(outcome.distance, 100),
                    geometry         |-> outcome.payload])

\* fetchOrsDirections: the promise it returns, settled by the outcome.
fetchOrsDirections(outcome) ==
    IF outcome.kind = "abort" THEN Rejected(Message("This operation was aborted", 0))
    ELSE IF outcome.kind = "http"
    THEN Rejected(Message("ORS Directions API", outcome.status))
    ELSE IF outcome.kind = "malformed"
    THEN Rejected(Message("Unexpected token in JSON", 0))
    ELSE IF outcome.kind = "empty"
    THEN Rejected(Message("No route returned from ORS", 0))
    ELSE Fulfilled([duration_minutes |-> MathRound(outcome.duration, 60),
                    distance_km      |-> MathRound(outcome.distance, 100),
                    geometry         |-> outcome.payload])

DirectionsGET(request) ==
    /\ gateway = "directions"
    /\ UNCHANGED <<suburbs, client, gateway, now>>
    /\ LET mode    == IF request.mode = Absent THEN "driving" ELSE request.mode
           invalid == ValidateDirections(request)
           key     == directionsCacheKey(request.from_lat, request.from_lng,
                                         request.to_lat, request.to_lng, mode)
       IN  IF invalid.text # Ok THEN Reject("GET /directions", request, 400, invalid)
           ELSE CheckCache("GET /directions", request, key,
                           [request |-> request, key |-> key])

DirectionsSettle(slot, outcome) ==
    /\ gateway = "directions"
    /\ slot \in DOMAIN pending
    /\ UNCHANGED <<suburbs, client, gateway, now>>
    /\ Finish("GET /directions", slot, outcome, fetchOrsDirections(outcome))

(***************************************************************************)
(* GET /api/isochrone                                                      *)
(*                                                                         *)
(* The ranges parameter is the list of what parseInt makes of each of its  *)
(* comma-separated parts (NaN for a part that is not a number).            *)
(***************************************************************************)
AbsentRanges == <<Undefined>>

\* rangesParam.split(",").map(parseInt).filter(n => !isNaN(n) && n > 0)
ParseRanges(ranges) ==
    SelectSeq(IF ranges = AbsentRanges THEN <<30, 45>> ELSE ranges,
              LAMBDA n : n # NaN /\ n > 0)

RECURSIVE InsertAscending(_, _)
InsertAscending(n, sorted) ==
    IF sorted = <<>> THEN <<n>>
    ELSE IF Head(sorted) > n THEN <<n>> \o sorted
    ELSE <<Head(sorted)>> \o InsertAscending(n, Tail(sorted))

\* rangesMinutes.sort((a, b) => a - b)
RECURSIVE SortAscending(_)
SortAscending(list) ==
    IF list = <<>> THEN <<>>
    ELSE InsertAscending(list[Len(list)], SortAscending(SubSeq(list, 1, Len(list) - 1)))

ValidateIsochrone(request) ==
    IF request.lat = NaN \/ request.lng = NaN
    THEN Message("Missing or invalid params: lat, lng", 0)
    ELSE IF Len(ParseRanges(request.ranges)) = 0
    THEN Message("Invalid ranges: provide comma-separated positive integers", 0)
    ELSE Message(Ok, 0)

isochroneCacheKey(lat, lng, ranges) == <<ToFixed(lat, 3), ToFixed(lng, 3), ranges>>

\* fetchOrsIsochrones: any JSON body of a 2xx answer is the geojson.
fetchOrsIsochrones(rangesMinutes, outcome) ==
    IF outcome.kind = "abort" THEN Rejected(Message("This operation was aborted", 0))
    ELSE IF outcome.kind = "http"
    THEN Rejected(Message("ORS Isochrones API", outcome.status))
    ELSE IF outcome.kind = "malformed"
    THEN Rejected(Message("Unexpected token in JSON", 0))
    ELSE Fulfilled([geojson |-> outcome.payload, ranges_minutes |-> rangesMinutes])

IsochroneGET(request) ==
    /\ gateway = "isochrone"
    /\ UNCHANGED <<suburbs, client, gateway, now>>
    /\ LET invalid == ValidateIsochrone(request)
           rangesMinutes == SortAscending(ParseRanges(request.ranges))
           key == isochroneCacheKey(request.lat, request.lng, rangesMinutes)
       IN  IF invalid.text # Ok THEN Reject("GET /isochrone", request, 400, invalid)
           ELSE CheckCache("GET /isochrone", request, key,
                           [request |-> request, key |-> key,
                            rangesMinutes |-> rangesMinutes])

IsochroneSettle(slot, outcome) ==
    /\ gateway = "isochrone"
    /\ slot \in DOMAIN pending
    /\ UNCHANGED <<suburbs, client, gateway, now>>
    /\ Finish("GET /isochrone", slot, outcome,
              fetchOrsIsochrones(pending[slot].rangesMinutes, outcome))

(***************************************************************************)
(* POST /api/overpass-poi                                                  *)
(*                                                                         *)
(* body tells whether the JSON body is an object (it may also be null);    *)
(* lat and lng are what parseFloat makes of its members, radius is its     *)
(* member in metres, Undefined when it has none.                           *)
(***************************************************************************)
\* What stops the handler before the cache: the TypeError of reading a
\* member of null (caught, 500) or the 400 check; the status is the answer's.
ValidateOverpass(request) ==
    IF ~request.body THEN Message("Cannot read properties of null", 500)
    ELSE IF request.lat = NaN \/ request.lng = NaN
    THEN Message("Missing or invalid lat/lng", 400)
    ELSE Message(Ok, 0)

\* Math.min(body.radius ?? 3000, 5000)
OverpassRadius(radius) == Min(IF radius = Undefined THEN 3000 ELSE radius, 5000)

overpassCacheKey(lat, lng, radius) == <<ToFixed(lat, 3), ToFixed(lng, 3), radius>>

\* fetchOverpassAmenities: the elements of any 2xx JSON body, categorized
\* (none when the body has no elements).
fetchOverpassAmenities(outcome) ==
    IF outcome.kind = "abort" THEN Rejected(Message("This operation was aborted", 0))
    ELSE IF outcome.kind = "http"
    THEN Rejected(Message("Overpass API", outcome.status))
    ELSE IF outcome.kind = "malformed"
    THEN Rejected(Message("Unexpected token in JSON", 0))
    ELSE Fulfilled([amenities |-> IF outcome.kind = "empty" THEN 0 ELSE outcome.payload])

OverpassPOST(request) ==
    /\ gateway = "overpass-poi"
    /\ UNCHANGED <<suburbs, client, gateway, now>>
    /\ LET invalid == ValidateOverpass(request)
           key == overpassCacheKey(request.lat, request.lng,
                                   OverpassRadius(request.radius))
       IN  IF invalid.text # Ok
           THEN Reject("POST /overpass-poi", request, invalid.status,
                       Message(invalid.text, 0))
           ELSE CheckCache("POST /overpass-poi", request, key,
                           [request |-> request, key |-> key])

OverpassSettle(slot, outcome) ==
    /\ gateway = "overpass-poi"
    /\ slot \in DOMAIN pending
    /\ UNCHANGED <<suburbs, client, gateway, now>>
    /\ Finish("POST /overpass-poi", slot, outcome, fetchOverpassAmenities(outcome))

(***************************************************************************)
(* GET /api/commute                                                        *)
(***************************************************************************)
ValidateCommute(request) ==
    IF NaN \in {request.from_lat, request.from_lng, request.to_lat, request.to_lng}
    THEN Message("Missing or invalid params: from_lat, from_lng, to_lat, to_lng", 0)
    ELSE Message(Ok, 0)

commuteCacheKey(fromLat, fromLng, toLat, toLng) ==
    <<ToFixed(fromLat, 2), ToFixed(fromLng, 2), ToFixed(toLat, 2), ToFixed(toLng, 2)>>

\* fetchTransit: the first journey's duration in minutes, never negative.
fetchTransit(outcome) ==
    IF outcome.kind = "unconfigured"
    THEN Rejected(Message("TFNSW_API_KEY not configured", 0))
    ELSE IF outcome.kind = "abort"
    THEN Rejected(Message("This operation was aborted", 0))
    ELSE IF outcome.kind = "http" THEN Rejected(Message("TfNSW API", outcome.status))
    ELSE IF outcome.kind = "malformed"
    THEN Rejected(Message("Unexpected token in JSON", 0))
    ELSE IF outcome.kind = "empty"
    THEN Rejected(Message("No transit journeys found", 0))
    ELSE Fulfilled([duration_min |-> Max(0, MathRound(outcome.duration, 60)),
                    summary      |-> outcome.payload])

\* fetchDriving: ORS when it has a key and answers, else Google when it has
\* a key, else the error.
fetchDriving(ors, google) ==
    LET viaOrs == fetchOrsDirections(ors)
    IN  IF ors.kind # "unconfigured" /\ viaOrs.ok
        THEN Fulfilled([duration_min |-> viaOrs.value.duration_minutes,
                        distance_km  |-> viaOrs.value.distance_km,
                        traffic_note |-> "typical conditions (ORS)"])
        ELSE IF google.kind = "unconfigured"
        THEN Rejected(Message("No driving API configured (set OPENROUTE_API_KEY or GOOGLE_MAPS_API_KEY)", 0))
        ELSE IF google.kind = "abort"
        THEN Rejected(Message("This operation was aborted", 0))
        ELSE IF google.kind = "http"
        THEN Rejected(Message("Google Routes API", google.status))
        ELSE IF google.kind = "malformed"
        THEN Rejected(Message("Unexpected token in JSON", 0))
        ELSE IF google.kind = "empty"
        THEN Rejected(Message("No driving route found", 0))
        ELSE Fulfilled([duration_min |-> MathRound(google.duration, 60),
                        distance_km  |-> MathRound(google.distance, 100),
                        traffic_note |-> IF google.payload = 1
                                         THEN "with current traffic"
                                         ELSE "typical conditions"])

\* Mutation of DrivingEstimate: the distance is not scaled by 1.3.
DrivingEstimate_unscaled(straightLineKm) ==
    [duration_min |-> MathRound(2 * straightLineKm, 10),
     distance_km  |-> straightLineKm,
     traffic_note |-> "estimate (API unavailable)"]

\* "Fallback: estimate driving from haversine", the distance in tenths.
DrivingEstimate(straightLineKm) ==
    [duration_min |-> MathRound(2 * straightLineKm, 10),
     distance_km  |-> MathRound(13 * straightLineKm, 10),
     traffic_note |-> "estimate (API unavailable)"]

\* Mutation of CommuteResponse: a failed driving lookup also drops the
\* transit result.
CommuteResponse_dropTransit(transitResult, drivingResult, straightLineKm) ==
    IF transitResult.ok /\ drivingResult.ok
    THEN [transit |-> transitResult.value, driving |-> drivingResult.value,
          straight_line_km |-> straightLineKm]
    ELSE IF transitResult.ok
    THEN [transit |-> NullObj, driving |-> DrivingEstimate(straightLineKm),
          straight_line_km |-> straightLineKm,
          driving_error |-> drivingResult.reason]
    ELSE IF drivingResult.ok
    THEN [transit |-> NullObj, driving |-> drivingResult.value,
          straight_line_km |-> straightLineKm,
          transit_error |-> transitResult.reason]
    ELSE [transit |-> NullObj, driving |-> DrivingEstimate(straightLineKm),
          straight_line_km |-> straightLineKm,
          transit_error |-> transitResult.reason,
          driving_error |-> drivingResult.reason]

\* The response built from the two settled lookups; transit_error and
\* driving_error are members only when the lookup failed.
CommuteResponse(transitResult, drivingResult, straightLineKm) ==
    IF transitResult.ok /\ drivingResult.ok
    THEN [transit |-> transitResult.value, driving |-> drivingResult.value,
          straight_line_km |-> straightLineKm]
    ELSE IF transitResult.ok
    THEN [transit |-> transitResult.value, driving |-> DrivingEstimate(straightLineKm),
          straight_line_km |-> straightLineKm,
          driving_error |-> drivingResult.reason]
    ELSE IF drivingResult.ok
    THEN [transit |-> NullObj, driving |-> drivingResult.value,
          straight_line_km |-> straightLineKm,
          transit_error |-> transitResult.reason]
    ELSE [transit |-> NullObj, driving |-> DrivingEstimate(straightLineKm),
          straight_line_km |-> straightLineKm,
          transit_error |-> transitResult.reason,
          driving_error |-> drivingResult.reason]

CommuteGET(request) ==
    /\ gateway = "commute"
    /\ UNCHANGED <<suburbs, client, gateway, now>>
    /\ LET invalid == ValidateCommute(request)
           straightLineKm == haversineKm(request.from_lat, request.from_lng,
                                         request.to_lat, request.to_lng)
           key == commuteCacheKey(request.from_lat, request.from_lng,
                                  request.to_lat, request.to_lng)
       IN  IF invalid.text # Ok THEN Reject("GET /commute", request, 400, invalid)
           ELSE CheckCache("GET /commute", request, key,
                           [request |-> request, key |-> key,
                            straightLineKm |-> straightLineKm,
                            transit |-> Unsettled, driving |-> Unsettled])

\* One of the two lookups of the slot settles.  Promise.allSettled resumes
\* the handler when both have: it builds the response, caches it and
\* answers.
CommuteSettled(slot, transitResult, drivingResult) ==
    LET call == pending[slot]
    IN  /\ op' = [name |-> "GET /commute",
                  step |-> IF transitResult.settled /\ drivingResult.settled
                           THEN "respond" ELSE "settle",
                  request |-> call.request, key |-> call.key, lookup |-> "none",
                  transit |-> transitResult, driving |-> drivingResult]
        /\ IF transitResult.settled /\ drivingResult.settled
           THEN LET response == CommuteResponse(transitResult, drivingResult,
                                                call.straightLineKm)
                IN  /\ cache' = CacheSet(call.key, response)
                    /\ result' = Respond(200, response)
                    /\ pending' = Resume(slot)
           ELSE /\ cache' = cache
                /\ result' = NoResponse
                /\ pending' = [pending EXCEPT ![slot].transit = transitResult,
                                              ![slot].driving = drivingResult]

CommuteSettleTransit(slot, outcome) ==
    /\ gateway = "commute"
    /\ slot \in DOMAIN pending
    /\ ~pending[slot].transit.settled
    /\ UNCHANGED <<suburbs, client, gateway, now>>
    /\ CommuteSettled(slot, fetchTransit(outcome), pending[slot].driving)

CommuteSettleDriving(slot, ors, google) ==
    /\ gateway = "commute"
    /\ slot \in DOMAIN pending
    /\ ~pending[slot].driving.settled
    /\ UNCHANGED <<suburbs, client, gateway, now>>
    /\ CommuteSettled(slot, pending[slot].transit, fetchDriving(ors, google))

(***************************************************************************)
(* Requests, provider outcomes and the gateway specification               *)
(***************************************************************************)
GatewayNames == {"directions", "isochrone", "overpass-poi", "commute"}

DirectionsRequest(fromLat, mode) ==
    [from_lat |-> fromLat, from_lng |-> 100, to_lat |-> 2100, to_lng |-> 100,
     mode |-> mode]

\* Two requests that round to one key and a third of another key; a missing
\* coordinate; a mode that is neither driving nor cycling.
DirectionsRequests ==
    {DirectionsRequest(NaN, Absent), DirectionsRequest(100, Absent),
     DirectionsRequest(104, "driving"), DirectionsRequest(106, Absent),
     DirectionsRequest(100, "walking")}

IsochroneRequest(lat, ranges) == [lat |-> lat, lng |-> 100, ranges |-> ranges]

IsochroneRequests ==
    {IsochroneRequest(NaN, AbsentRanges), IsochroneRequest(100, AbsentRanges),
     IsochroneRequest(104, <<45, NaN, 30>>), IsochroneRequest(100, <<0, NaN>>)}

OverpassRequest(body, lat, radius) ==
    [body |-> body, lat |-> lat, lng |-> 100, radius |-> radius]

OverpassRequests ==
    {OverpassRequest(FALSE, NaN, Undefined), OverpassRequest(TRUE, NaN, Undefined),
     OverpassRequest(TRUE, 100, 6000), OverpassRequest(TRUE, 104, 5000)}

CommuteRequest(fromLat, toLng) ==
    [from_lat |-> fromLat, from_lng |-> 100, to_lat |-> 2100, to_lng |-> toLng]

\* Two requests of one key, 22.2 km and 21.8 km apart, and one without to_lng.
CommuteRequests ==
    {CommuteRequest(100, 100), CommuteRequest(140, 100), CommuteRequest(100, NaN)}

RouteOutcomes ==
    {Outcome("ok", 200, 1, 1290, 15250), Outcome("ok", 200, 2, 600, 4040),
     Outcome("http", 429, 0, 0, 0), Outcome("abort", 0, 0, 0, 0),
     Outcome("empty", 200, 0, 0, 0)}

BodyOutcomes ==
    {Outcome("ok", 200, 1, 0, 0), Outcome("ok", 200, 2, 0, 0),
     Outcome("http", 504, 0, 0, 0), Outcome("malformed", 200, 0, 0, 0)}

TransitOutcomes ==
    {Outcome("ok", 200, 1, 2520, 0), Outcome("http", 503, 0, 0, 0)}

OrsOutcomes == {Outcome("ok", 200, 1, 1290, 15250), Outcome("http", 429, 0, 0, 0)}

GoogleOutcomes == {Outcome("unconfigured", 0, 0, 0, 0)}

\* The age at which an entry is still served, and the first at which it is not.
TickSteps == {CACHE_TTL_MS, CACHE_TTL_MS + 1}

InitGateway ==
    /\ suburbs = <<>>
    /\ op = NoOp
    /\ client = NoClient
    /\ result = NoResponse
    /\ gateway \in GatewayNames
    /\ cache = <<>>
    /\ now = 0
    /\ pending = <<>>

NextGateway ==
    \/ \E request \in DirectionsRequests : DirectionsGET(request)
    \/ \E slot \in 1..MaxInFlight, outcome \in RouteOutcomes :
           DirectionsSettle(slot, outcome)
    \/ \E request \in IsochroneRequests : IsochroneGET(request)
    \/ \E slot \in 1..MaxInFlight, outcome \in BodyOutcomes :
           IsochroneSettle(slot, outcome)
    \/ \E request \in OverpassRequests : OverpassPOST(request)
    \/ \E slot \in 1..MaxInFlight, outcome \in BodyOutcomes :
           OverpassSettle(slot, outcome)
    \/ \E request \in CommuteRequests : CommuteGET(request)
    \/ \E slot \in 1..MaxInFlight, outcome \in TransitOutcomes :
           CommuteSettleTransit(slot, outcome)
    \/ \E slot \in 1..MaxInFlight, ors \in OrsOutcomes, google \in GoogleOutcomes :
           CommuteSettleDriving(slot, ors, google)
    \/ \E delta \in TickSteps : Tick(delta)

SpecGateway == InitGateway /\ [][NextGateway]_vars

(***************************************************************************)
(* Properties of the enrichment gateways                                   *)
(***************************************************************************)
\* The step of the handler the state was reached by: "receive" (the request
\* came in and ran up to its answer or its await), "settle" (one lookup of a
\* commute request settled), "respond" (the provider call settled and the
\* handler answered), "tick", or "none" before anything happened.
StepOf(o) == IF "step" \in DOMAIN o THEN o.step ELSE "none"

\* The request is one the claims call missing or invalid: a coordinate that
\* is not a number, a mode other than driving and cycling, ranges without a
\* positive integer, a POI body without a numeric lat or lng.
InvalidRequest(name, request) ==
    CASE name = "GET /directions" ->
             \/ NaN \in {request.from_lat, request.from_lng, request.to_lat,
                         request.to_lng}
             \/ request.mode \notin {Absent, "driving", "cycling"}
      [] name = "GET /isochrone" ->
             \/ request.lat = NaN \/ request.lng = NaN
             \/ /\ request.ranges # AbsentRanges
                /\ \A i \in 1..Len(request.ranges) :
                       request.ranges[i] = NaN \/ request.ranges[i] <= 0
      [] name = "POST /overpass-poi" ->
             request.body /\ (request.lat = NaN \/ request.lng = NaN)
      [] name = "GET /commute" ->
             NaN \in {request.from_lat, request.from_lng, request.to_lat,
                      request.to_lng}

\* The step is a handler reaching its cache lookup with the request of op'.
IsLookup(o) ==
    /\ StepOf(o) = "receive"
    /\ ~InvalidRequest(o.name, o.request)
    /\ (o.name = "POST /overpass-poi" => o.request.body)

\* The step started a provider call for the request of op': one more
\* request is suspended, and it is that request.
FetchStarted ==
    \E slot \in DOMAIN pending' \ DOMAIN pending :
        /\ DOMAIN pending' = DOMAIN pending \cup {slot}
        /\ pending'[slot].request = op'.request
        /\ \A other \in DOMAIN pending : pending'[other] = pending[other]

\* C12: in every enrichment gateway, a lookup made more than 24 hours after
\* the entry was stored treats it as absent, removes it during that lookup
\* and the handler starts a fresh provider call; a lookup made at most 24
\* hours after the store answers the stored payload without a provider
\* call; and an entry is never removed except by such a lookup.
C12_CacheExpiry ==
    [][/\ IsLookup(op') =>
              LET key == op'.key
              IN  /\ (key \in DOMAIN cache /\ now - cache[key].timestamp > CACHE_TTL_MS)
                         => /\ key \notin DOMAIN cache'
                            /\ FetchStarted
                            /\ result' = NoResponse
                  /\ (key \in DOMAIN cache /\ now - cache[key].timestamp <= CACHE_TTL_MS)
                         => /\ result' = Respond(200, cache[key].data)
                            /\ pending' = pending
                            /\ cache' = cache
       /\ \A key \in DOMAIN cache :
              key \notin DOMAIN cache'
                  => /\ IsLookup(op')
                     /\ op'.key = key
                     /\ now - cache[key].timestamp > CACHE_TTL_MS]_vars

\* An entry stored at time 0 was found expired a day and a millisecond
\* later: it is gone and the provider is being called again.
C12_Witness ==
    /\ StepOf(op) = "receive"
    /\ op.lookup = "expired"
    /\ now = CACHE_TTL_MS + 1
    /\ op.key \notin DOMAIN cache
    /\ \E slot \in DOMAIN pending : pending[slot].key = op.key

\* An entry exactly 24 hours old is served from the cache.
C12_ServedAtTtl ==
    /\ StepOf(op) = "receive"
    /\ op.lookup = "hit"
    /\ op.key \in DOMAIN cache
    /\ now - cache[op.key].timestamp = CACHE_TTL_MS

\* The payload records a provider failure: an error message or the
\* fallback estimate that goes with it.
RecordsFailure(data) ==
    \/ "error" \in DOMAIN data
    \/ "transit_error" \in DOMAIN data
    \/ "driving_error" \in DOMAIN data

\* C13: every cached entry holds a successful provider result; no cache
\* contains a payload that records a provider failure (an error message or a
\* fallback estimate).
C13_OnlySuccessCached ==
    \A key \in DOMAIN cache : ~RecordsFailure(cache[key].data)

\* The same statement for the three gateways that proxy one provider.
C13_ProxyGateways == (gateway # "commute") => C13_OnlySuccessCached

IsCommute(o, step) == o.name = "GET /commute" /\ StepOf(o) = step

\* C14: on a cache miss GET /commute starts the transit and the driving
\* lookup together and answers only after both have settled; the failure of
\* one never cancels or alters the other; a failed transit lookup gives
\* transit = null with transit_error while driving is still reported, a
\* failed driving lookup gives driving_error while transit is still
\* reported; the status is 200 in all four combinations.
C14_AllSettledJoin ==
    [][/\ (IsCommute(op', "receive") /\ IsLookup(op') /\ op'.lookup # "hit")
              => /\ FetchStarted
                 /\ \A slot \in DOMAIN pending' \ DOMAIN pending :
                        /\ ~pending'[slot].transit.settled
                        /\ ~pending'[slot].driving.settled
       /\ IsCommute(op', "settle")
              => /\ result' = NoResponse
                 /\ cache' = cache
                 /\ DOMAIN pending' = DOMAIN pending
                 /\ \E slot \in DOMAIN pending :
                        /\ \A other \in DOMAIN pending \ {slot} :
                               pending'[other] = pending[other]
                        /\ \/ /\ pending'[slot].transit = pending[slot].transit
                              /\ ~pending[slot].driving.settled
                              /\ pending'[slot].driving.settled
                           \/ /\ pending'[slot].driving = pending[slot].driving
                              /\ ~pending[slot].transit.settled
                              /\ pending'[slot].transit.settled
       /\ IsCommute(op', "respond")
              => /\ op'.transit.settled /\ op'.driving.settled
                 /\ \E slot \in DOMAIN pending \ DOMAIN pending' :
                        /\ pending[slot].request = op'.request
                        /\ \/ pending[slot].transit = op'.transit
                           \/ pending[slot].driving = op'.driving
                 /\ result'.status = 200
                 /\ IF op'.transit.ok
                    THEN /\ result'.body.transit = op'.transit.value
                         /\ "transit_error" \notin DOMAIN result'.body
                    ELSE /\ result'.body.transit = NullObj
                         /\ result'.body.transit_error = op'.transit.reason
                 /\ IF op'.driving.ok
                    THEN /\ result'.body.driving = op'.driving.value
                         /\ "driving_error" \notin DOMAIN result'.body
                    ELSE /\ result'.body.driving # NullObj
                         /\ result'.body.driving_error = op'.driving.reason]_vars

\* The transit lookup failed, the driving lookup succeeded, and the answer
\* is a 200 that reports both.
C14_Witness ==
    /\ IsCommute(op, "respond")
    /\ ~op.transit.ok
    /\ op.driving.ok
    /\ result.status = 200
    /\ result.body.driving = op.driving.value

\* C15: when the driving lookup fails, the response carries a non-null
\* driving with duration_min = round(straight_line_km * 2), distance_km =
\* round(straight_line_km * 1.3) to one decimal and a traffic_note that marks
\* it as an estimate, together with driving_error; driving is never null in
\* a 200 commute response.
C15_DrivingFallback ==
    (op.name = "GET /commute" /\ result.status = 200) =>
        LET body == result.body
            km   == body.straight_line_km          \* in tenths
        IN  /\ body.driving # NullObj
            /\ "driving_error" \in DOMAIN body
                   => /\ body.driving.duration_min = (2 * (2 * km) + 10) \div 20
                      /\ body.driving.distance_km = (2 * (13 * km) + 10) \div 20
                      /\ body.driving.traffic_note = "estimate (API unavailable)"
            /\ (StepOf(op) = "respond" /\ ~op.driving.ok)
                   => /\ "driving_error" \in DOMAIN body
                      /\ body.driving_error = op.driving.reason

\* A driving lookup failed 22.2 km from the destination: 44 minutes, 28.9 km.
C15_Witness ==
    /\ IsCommute(op, "respond")
    /\ ~op.driving.ok
    /\ result.body.straight_line_km = 222
    /\ result.body.driving.duration_min = 44
    /\ result.body.driving.distance_km = 289

\* C16: there is no single-flight: two requests with equal cache keys that
\* both look the cache up before either stores each make their own provider
\* call, each gets a complete answer of its own, and afterwards the cache
\* holds one entry for the key, written by whichever stored last.
C16_NoSingleFlight ==
    [][/\ (IsLookup(op') /\ op'.lookup # "hit")
              => FetchStarted
       /\ (StepOf(op') = "respond" /\ result'.status = 200)
              => /\ op'.key \in DOMAIN cache'
                 /\ cache'[op'.key] = [data |-> result'.body, timestamp |-> now]
                 /\ \A key \in DOMAIN cache' \ {op'.key} :
                        key \in DOMAIN cache /\ cache'[key] = cache[key]
       /\ (StepOf(op') = "respond" /\ op'.name # "GET /commute"
              /\ op'.outcome.kind = "ok")
              => /\ result'.status = 200
                 /\ \/ "geometry" \in DOMAIN result'.body
                          /\ result'.body.geometry = op'.outcome.payload
                    \/ "geojson" \in DOMAIN result'.body
                          /\ result'.body.geojson = op'.outcome.payload
                    \/ "amenities" \in DOMAIN result'.body
                          /\ result'.body.amenities = op'.outcome.payload]_vars

\* Two requests of one key were in flight together: one has answered and
\* stored its result, the other still waits for its own provider call.
C16_Witness ==
    /\ StepOf(op) = "respond"
    /\ result.status = 200
    /\ cache[op.key].data = result.body
    /\ \E slot \in DOMAIN pending : pending[slot].key = op.key
    /\ now = 0

\* Two requests with equal keys are suspended at their provider calls.
C16_BothInFlight ==
    /\ DOMAIN pending = {1, 2}
    /\ pending[1].key = pending[2].key

ProxyGateways == {"GET /directions", "GET /isochrone", "POST /overpass-poi"}

\* The provider call failed: a non-2xx status, the timer's abort, or no
\* usable result (a body that is not JSON; for directions also no route).
ProviderFailed(name, outcome) ==
    \/ outcome.kind \in {"http", "abort", "malformed"}
    \/ name = "GET /directions" /\ outcome.kind = "empty"

MaxChunks == 2       \* text chunks enqueued on one response

\* A request body: whether it parses as JSON, the number of messages
\* (Undefined when the member is missing) and context.income.
ChatRequest(json, messages, income) ==
    [json |-> json, messages |-> messages, income |-> income]

\* The system prompt, with the user context appended when context.income is
\* truthy.
systemPrompt(request) ==
    [base |-> "SYSTEM_PROMPT", context |-> ~Falsy(request.income)]

\* new Response(readable): status 200, text/plain, the body a stream of
\* which the caller holds the bytes enqueued so far, in chunks chunks.
StreamResponse(stream, chunks, body) ==
    [status |-> 200, content_type |-> "text/plain; charset=utf-8",
     stream |-> stream, chunks |-> chunks, body |-> body]

\* TextEncoder.encode: the UTF-8 bytes of a text; "a" is U+0061, "e9" stands
\* for the one character U+00E9, the empty text has no bytes.
encode(text) ==
    CASE text = "a"  -> <<97>>
      [] text = "e9" -> <<195, 169>>
      [] OTHER       -> <<>>

\* Mutation of Enqueue: the chunk is put in front of the bytes enqueued.
Enqueue_inFront(body, event) ==
    IF event.type = "content_block_delta" /\ event.delta = "text_delta"
    THEN encode(event.text) \o body
    ELSE body

\* The body of the for-await loop: a text delta of a content block is
\* encoded and enqueued, any other event is skipped.
Enqueue(body, event) ==
    IF event.type = "content_block_delta" /\ event.delta = "text_delta"
    THEN body \o encode(event.text)
    ELSE body

\* new Response(JSON.stringify({ error }), { status })
ChatError(status, message) ==
    [status |-> status, content_type |-> "application/json", error |-> message]

\* POST: the body is read, the messages checked, the client built and
\* client.messages.stream called once; calls is the number of provider calls
\* the step made.  clientOk tells whether new Anthropic() returned.
ChatPOST(request, clientOk) ==
    /\ gateway = "chat"
    /\ IF ~request.json
       THEN /\ op' = [name |-> "POST /chat", step |-> "receive",
                      request |-> request, calls |-> 0]
            /\ result' = ChatError(500, Message("Unexpected end of JSON input", 0))
            /\ pending' = pending
       ELSE IF request.messages = Undefined \/ request.messages = 0
       THEN /\ op' = [name |-> "POST /chat", step |-> "receive",
                      request |-> request, calls |-> 0]
            /\ result' = ChatError(400, Message("No messages provided", 0))
            /\ pending' = pending
       ELSE IF ~clientOk
       THEN /\ op' = [name |-> "POST /chat", step |-> "receive",
                      request |-> request, calls |-> 0]
            /\ result' = ChatError(500, Message("client not constructed", 0))
            /\ pending' = pending
       ELSE /\ HasFreeSlot
            /\ op' = [name |-> "POST /chat", step |-> "receive",
                      request |-> request, calls |-> 1,
                      system |-> systemPrompt(request),
                      messages |-> request.messages]
            /\ result' = StreamResponse("open", 0, <<>>)
            /\ pending' = Suspend([name |-> "POST /chat", sent |-> 0,
                                   body |-> <<>>])
    /\ UNCHANGED <<suburbs, client, gateway, cache, now>>

\* One event of the provider's stream arrives: the loop body runs on it.
\* sent counts the chunks enqueued.
ChatEvent(slot, event) ==
    /\ gateway = "chat"
    /\ slot \in DOMAIN pending
    /\ pending[slot].sent < MaxChunks
    /\ LET body == Enqueue(pending[slot].body, event)
           sent == IF body = pending[slot].body THEN pending[slot].sent
                   ELSE pending[slot].sent + 1
       IN  /\ op' = [name |-> "POST /chat", step |-> "event",
                     calls |-> 0, event |-> event, slot |-> slot]
           /\ result' = StreamResponse("open", sent, body)
           /\ pending' = [pending EXCEPT ![slot].sent = sent, ![slot].body = body]
    /\ UNCHANGED <<suburbs, client, gateway, cache, now>>

\* The provider's stream ended: controller.close().
ChatClose(slot) ==
    /\ gateway = "chat"
    /\ slot \in DOMAIN pending
    /\ op' = [name |-> "POST /chat", step |-> "close",
              calls |-> 0, slot |-> slot]
    /\ result' = StreamResponse("closed", pending[slot].sent, pending[slot].body)
    /\ pending' = Resume(slot)
    /\ UNCHANGED <<suburbs, client, gateway, cache, now>>

\* The provider call failed, before or after some chunks: the iteration
\* throws and the catch inside start() runs controller.error(err).
ChatFail(slot, failure) ==
    /\ gateway = "chat"
    /\ slot \in DOMAIN pending
    /\ op' = [name |-> "POST /chat", step |-> "fail",
              calls |-> 0, failure |-> failure, slot |-> slot]
    /\ result' = StreamResponse("errored", pending[slot].sent, pending[slot].body)
    /\ pending' = Resume(slot)
    /\ UNCHANGED <<suburbs, client, gateway, cache, now>>

\* A body that is not JSON, no messages member, an empty list, one message
\* without context, two messages with an income in the context.
ChatRequests ==
    {ChatRequest(FALSE, Undefined, Undefined),
     ChatRequest(TRUE, Undefined, Undefined),
     ChatRequest(TRUE, 0, Undefined),
     ChatRequest(TRUE, 1, Undefined),
     ChatRequest(TRUE, 2, 1000)}

\* An event of the provider's stream: its type, the type of its delta and
\* the delta's text.
StreamEvent(type, delta, text) == [type |-> type, delta |-> delta, text |-> text]

\* Two text deltas of different texts, a delta that is not text (a tool's
\* JSON input) and an event that is not a delta.
StreamEvents ==
    {StreamEvent("content_block_delta", "text_delta", "a"),
     StreamEvent("content_block_delta", "text_delta", "e9"),
     StreamEvent("content_block_delta", "input_json_delta", "a"),
     StreamEvent("message_start", "none", "")}

\* The provider refuses the call (before any token) or breaks off.
ChatFailures ==
    {Message("529 overloaded_error", 529), Message("Connection error.", 0)}

InitChat ==
    /\ suburbs = <<>>
    /\ op = NoOp
    /\ client = NoClient
    /\ result = NoResponse
    /\ gateway = "chat"
    /\ cache = <<>>
    /\ now = 0
    /\ pending = <<>>

NextChat ==
    \/ \E request \in ChatRequests, clientOk \in BOOLEAN : ChatPOST(request, clientOk)
    \/ \E slot \in 1..MaxInFlight, event \in StreamEvents : ChatEvent(slot, event)
    \/ \E slot \in 1..MaxInFlight : ChatClose(slot)
    \/ \E slot \in 1..MaxInFlight, failure \in ChatFailures : ChatFail(slot, failure)

SpecChat == InitChat /\ [][NextChat]_vars

(***************************************************************************)
(* Properties of POST /api/chat                                            *)
(***************************************************************************)
\* The request is one the handler accepts: a JSON body with messages.
ChatAccepted(request) ==
    request.json /\ request.messages # Undefined /\ request.messages > 0

\* C20: POST /chat makes exactly one provider call per accepted request and
\* never retries, and whenever the provider fails, before the first token
\* or in the middle of streaming, the caller holds an error payload
\* { error } and not a response that started as a 200 text stream.
C20_FailurePayload ==
    op.name = "POST /chat" =>
        /\ op.calls <= 1
        /\ StepOf(op) # "receive" => op.calls = 0
        /\ StepOf(op) = "fail" =>
               /\ "error" \in DOMAIN result
               /\ result.status # 200

\* The provider failed after chunks had been sent.
C20_FailedMidStream ==
    /\ op.name = "POST /chat"
    /\ StepOf(op) = "fail"
    /\ result.chunks > 0

\* The part of C20 about calls: a step starts a provider call only when it
\* accepts a request, then exactly one, and a failure starts none.
C20_SingleCall ==
    [][op'.name = "POST /chat" =>
          LET started == DOMAIN pending' \ DOMAIN pending
          IN  /\ Cardinality(started) = op'.calls
              /\ op'.calls = 1 =>
                     /\ StepOf(op') = "receive"
                     /\ ChatAccepted(op'.request)
                     /\ \A slot \in started : pending'[slot].sent = 0
              /\ StepOf(op') = "fail" =>
                     /\ started = {}
                     /\ Cardinality(DOMAIN pending') = Cardinality(DOMAIN pending) - 1
                     /\ result'.status = 200
                     /\ result'.stream = "errored"]_vars

IsTextDelta(event) ==
    event.type = "content_block_delta" /\ event.delta = "text_delta"

\* C21: the bytes POST /chat delivers are the concatenation, in provider
\* order, of the text of the provider's text deltas: a response starts
\* empty, each text delta is appended when it arrives, any other event adds
\* nothing, no step touches another response, and the end of the provider's
\* stream closes the response once, with the bytes unchanged and no event
\* after it.
C21_VerbatimRelay ==
    [][op'.name = "POST /chat" =>
          /\ \A slot \in DOMAIN pending' \ DOMAIN pending :
                 pending'[slot].body = <<>> /\ result'.body = <<>>
          /\ StepOf(op') \in {"event", "close"} =>
                 /\ op'.slot \in DOMAIN pending
                 /\ \A other \in DOMAIN pending \ {op'.slot} :
                        other \in DOMAIN pending' /\ pending'[other] = pending[other]
          /\ StepOf(op') = "event" =>
                 /\ result'.stream = "open"
                 /\ result'.body =
                        IF IsTextDelta(op'.event)
                        THEN pending[op'.slot].body \o encode(op'.event.text)
                        ELSE pending[op'.slot].body
                 /\ pending'[op'.slot].body = result'.body
          /\ StepOf(op') = "close" =>
                 /\ result'.stream = "closed"
                 /\ result'.body = pending[op'.slot].body
                 /\ op'.slot \notin DOMAIN pending']_vars

\* A response closed after the deltas "a" and U+00E9, in that order, while
\* another response was open.
C21_Witness ==
    /\ op.name = "POST /chat"
    /\ StepOf(op) = "close"
    /\ result.body = <<97, 195, 169>>
    /\ result.chunks = 2
    /\ pending # <<>>

(***************************************************************************)
(* buildUserContext (lib/ai-context): the personalised block of the chat   *)
(* prompt.  income is the annual income in dollars; bedrooms and sharing   *)
(* are in tenths, Undefined when the option is absent.                     *)
(***************************************************************************)
SHORTLIST == 20

\* let lookupBeds = bedrooms ?? 0, replaced in a sharing household by 1 for
\* two people sharing a bedroom and by min(sharing, 4) otherwise.
LookupBeds(bedroomsT, sharingT, shareBedroom) ==
    IF sharingT > 10
    THEN IF sharingT = 20 /\ shareBedroom THEN 10 ELSE Min(sharingT, 40)
    ELSE IF bedroomsT \in {Null, Undefined} THEN 0 ELSE bedroomsT

\* rentKey: the bedroom field for 1..4 bedrooms, the overall median for any
\* other count.
ContextRentKey(lookupBeds) ==
    IF lookupBeds >= 10 /\ lookupBeds <= 40
    THEN medianRentKey(lookupBeds)
    ELSE "median_rent_overall"

\* (a, b) => (b.total_bonds ?? 0) - (a.total_bonds ?? 0), a stable sort.
RECURSIVE InsertByBonds(_, _)
InsertByBonds(x, sorted) ==
    IF sorted = <<>> THEN <<x>>
    ELSE IF x.total_bonds > Head(sorted).total_bonds
    THEN <<x>> \o sorted
    ELSE <<Head(sorted)>> \o InsertByBonds(x, Tail(sorted))

RECURSIVE SortByBondsFrom(_, _, _)
SortByBondsFrom(list, i, sorted) ==
    IF i > Len(list) THEN sorted
    ELSE SortByBondsFrom(list, i + 1, InsertByBonds(list[i], sorted))

\* One line of the shortlist: the total rent, the rent per person and the
\* whole-number share of the weekly income.
ContextLine(suburb, rentKey, sharingT, weeklyIncome) ==
    LET totalRent == Field(suburb, rentKey)
        perPerson == MathRound(10 * totalRent, sharingT)
    IN  [suburb_key |-> suburb.suburb_key,
         postcode   |-> suburb.postcode,
         totalRent  |-> totalRent,
         perPerson  |-> perPerson,
         stress     |-> IF weeklyIncome > 0
                        THEN MathRound(100 * perPerson, weeklyIncome)
                        ELSE NaN]

buildUserContext(income, bedroomsT, sharingOpt, shareBedroomOpt) ==
    IF Falsy(income) THEN [text |-> ""]
    ELSE
    LET sharingT     == IF sharingOpt = Undefined THEN 10 ELSE sharingOpt
        shareBedroom == shareBedroomOpt
        weeklyIncome == MathRound(income, 52)
        isSharing    == sharingT > 10
        lookupBeds   == LookupBeds(bedroomsT, sharingT, shareBedroom)
        rentKey      == ContextRentKey(lookupBeds)
        maxPerPerson == MathRound(3 * weeklyIncome, 10)
        maxTotalRent == IF isSharing THEN (maxPerPerson * sharingT) \div 10
                        ELSE maxPerPerson
        affordable   ==
            SortByBondsFrom(
                SelectSeq(getAllSuburbs,
                          LAMBDA s : /\ Field(s, rentKey) \notin {Null, Undefined}
                                     /\ Field(s, rentKey) <= maxTotalRent),
                1, <<>>)
        shown        == SubSeq(affordable, 1, Min(Len(affordable), SHORTLIST))
    IN  [text         |-> "USER'S SITUATION",
         weeklyIncome |-> weeklyIncome,
         lookupBeds   |-> lookupBeds,
         rentKey      |-> rentKey,
         maxPerPerson |-> maxPerPerson,
         maxTotalRent |-> maxTotalRent,
         none         |-> Len(affordable) = 0,
         shortlist    |-> [k \in 1..Len(shown) |->
                              ContextLine(shown[k], rentKey,
                                          IF isSharing THEN sharingT ELSE 10,
                                          weeklyIncome)]]

BuildUserContext(income, bedroomsT, sharingOpt, shareBedroom) ==
    /\ op' = [name |-> "buildUserContext", income |-> income,
              bedrooms |-> bedroomsT, sharing |-> sharingOpt,
              shareBedroom |-> shareBedroom]
    /\ result' = buildUserContext(income, bedroomsT, sharingOpt, shareBedroom)
    /\ UNCHANGED <<suburbs, client, gatewayVars>>

\* No income, an income under which nothing is affordable alone, and a
\* larger one.
ContextIncomes == {Undefined, 0, 52000, 156000}
ContextBedrooms == {Undefined, 10, 20, 30, 40, 50}
ContextSharing == {Undefined, 10, 20, 30, 40}

NextContext ==
    \E income \in ContextIncomes, bedroomsT \in ContextBedrooms,
       sharingOpt \in ContextSharing, shareBedroom \in BOOLEAN :
        BuildUserContext(income, bedroomsT, sharingOpt, shareBedroom)

SpecContext == InitDataset /\ [][NextContext]_vars

(***************************************************************************)
(* Properties of buildUserContext                                          *)
(***************************************************************************)
\* What the recommendation engine resolves for the suburb under the options
\* of the call (absent bedrooms are its null, absent sharing its 1).
EngineRent(suburb) ==
    resolveSharedRent(suburb,
                      IF op.bedrooms = Undefined THEN Null ELSE op.bedrooms,
                      IF op.sharing = Undefined THEN 10 ELSE op.sharing,
                      op.shareBedroom)

IsContext == op.name = "buildUserContext" /\ ~Falsy(op.income)

SameRentAsEngine ==
    /\ \A i \in 1..Len(suburbs) :
           LET figure == Field(suburbs[i], result.rentKey)
               engine == EngineRent(suburbs[i])
           IN  /\ engine.resolved => figure = engine.totalRent
               /\ figure = Null => ~engine.resolved
    /\ \A k \in 1..Len(result.shortlist) :
           \E i \in 1..Len(suburbs) :
               /\ suburbs[i].suburb_key = result.shortlist[k].suburb_key
               /\ EngineRent(suburbs[i]).resolved
               /\ EngineRent(suburbs[i]).totalRent = result.shortlist[k].totalRent

\* C22: for every suburb and every combination of bedrooms, sharing and
\* shareBedroom, the rent figure buildUserContext uses for the suburb is the
\* one resolveSharedRent resolves, and the context has no figure for a
\* suburb only when resolveSharedRent resolves none.
C22_SameRentAsEngine == IsContext => SameRentAsEngine

\* The same statement where the two cannot differ: fewer than 5 bedrooms
\* for one person, and for a group only suburbs having the target field.
C22_WithoutFallback ==
    (/\ IsContext
     /\ op.sharing \in {Undefined, 10} => op.bedrooms # 50
     /\ op.sharing \notin {Undefined, 10} =>
            \A i \in 1..Len(suburbs) :
                Field(suburbs[i], result.rentKey) # Null) =>
        SameRentAsEngine

\* A group of three on a dataset where a suburb has a 2-bedroom figure but
\* no 3-bedroom figure.
C22_FallbackCase ==
    /\ IsContext
    /\ op.sharing = 30
    /\ \E i \in 1..Len(suburbs) :
           /\ Field(suburbs[i], "median_rent_3bed") = Null
           /\ Field(suburbs[i], "median_rent_2bed") # Null
    /\ result.shortlist = <<>>

(***************************************************************************)
(* Abort timers of the provider clients                                    *)
(*                                                                         *)
(* Each client arms a timer, awaits fetch inside try and clears the timer  *)
(* in finally.  pending[slot] is a call: when it started, its timer        *)
(* (armed, fired or cleared) and whether the call still runs.  gateway is  *)
(* the provider the behaviour is about.  Time is in milliseconds and       *)
(* passes in halves of the provider's limit.                               *)
(***************************************************************************)
MaxHalves == 3       \* half limits the clock may advance

Providers ==
    {"ORS directions", "ORS isochrones", "ORS matrix", "ORS POI", "Overpass",
     "TfNSW transit", "Google Routes"}

\* setTimeout(() => controller.abort(), limit)
TimerLimit(provider) ==
    CASE provider = "ORS directions" -> 15000
      [] provider = "ORS isochrones" -> 15000
      [] provider = "ORS matrix"     -> 30000
      [] provider = "ORS POI"        -> 15000
      [] provider = "Overpass"       -> 60000
      [] provider = "TfNSW transit"  -> 8000
      [] provider = "Google Routes"  -> 8000

\* Mutation of ExitCall: the timer cleared at the end of try, not in
\* finally, so that a throw leaves it armed.
ExitCall_clearInTry(call, exit) ==
    [call EXCEPT !.running = FALSE,
                 !.timer = IF exit = "ok" THEN "cleared" ELSE call.timer]

\* The call leaves try, by return or by throw: finally { clearTimeout }.
ExitCall(call, exit) ==
    [call EXCEPT !.running = FALSE, !.timer = "cleared"]

\* A timer that is neither running nor pending keeps nothing alive.
Collect(calls) ==
    [slot \in {j \in DOMAIN calls : calls[j].running \/ calls[j].timer = "armed"} |->
        calls[slot]]

\* The client is called: the timer is armed and fetch awaited.
CallStart ==
    /\ gateway \in Providers
    /\ HasFreeSlot
    /\ op' = [name |-> gateway, step |-> "start", slot |-> FreeSlot]
    /\ result' = NoResponse
    /\ pending' = Suspend([name |-> gateway, started |-> now,
                           limit |-> TimerLimit(gateway),
                           timer |-> "armed", running |-> TRUE])
    /\ UNCHANGED <<suburbs, client, gateway, cache, now>>

\* fetch settles: the response is returned ("ok"), it is not 2xx ("http")
\* or fetch or the body parse throws ("throw"; after the timer fired, the
\* abort error).
CallExit(slot, exit) ==
    /\ gateway \in Providers
    /\ slot \in DOMAIN pending
    /\ pending[slot].running
    /\ pending[slot].timer = "fired" => exit = "throw"
    /\ op' = [name |-> gateway, step |-> "exit", slot |-> slot, exit |-> exit,
              aborted |-> pending[slot].timer = "fired",
              elapsed |-> now - pending[slot].started]
    /\ result' = [status |-> 0, timer |-> ExitCall(pending[slot], exit).timer]
    /\ pending' = Collect([pending EXCEPT ![slot] = ExitCall(pending[slot], exit)])
    /\ UNCHANGED <<suburbs, client, gateway, cache, now>>

\* The timer is due: controller.abort().
TimerFire(slot) ==
    /\ gateway \in Providers
    /\ slot \in DOMAIN pending
    /\ pending[slot].timer = "armed"
    /\ now = pending[slot].started + pending[slot].limit
    /\ op' = [name |-> gateway, step |-> "fire", slot |-> slot]
    /\ result' = NoResponse
    /\ pending' = Collect([pending EXCEPT ![slot].timer = "fired"])
    /\ UNCHANGED <<suburbs, client, gateway, cache, now>>

\* Time passes, never beyond a timer that is due; an aborted fetch rejects
\* before any time passes.
TimerAdvance ==
    /\ gateway \in Providers
    /\ LET delta == TimerLimit(gateway) \div 2
       IN  /\ now + delta <= MaxHalves * delta
           /\ \A slot \in DOMAIN pending :
                  /\ pending[slot].timer # "fired"
                  /\ pending[slot].timer = "armed" =>
                         now + delta <= pending[slot].started + pending[slot].limit
           /\ now' = now + delta
    /\ op' = [name |-> gateway, step |-> "advance"]
    /\ result' = NoResponse
    /\ UNCHANGED <<suburbs, client, gateway, cache, pending>>

CallExits == {"ok", "http", "throw"}

InitTimers ==
    /\ suburbs = <<>>
    /\ op = NoOp
    /\ client = NoClient
    /\ result = NoResponse
    /\ gateway \in Providers
    /\ cache = <<>>
    /\ now = 0
    /\ pending = <<>>

NextTimers ==
    \/ CallStart
    \/ \E slot \in 1..MaxInFlight, exit \in CallExits : CallExit(slot, exit)
    \/ \E slot \in 1..MaxInFlight : TimerFire(slot)
    \/ TimerAdvance

SpecTimers == InitTimers /\ [][NextTimers]_vars

(***************************************************************************)
(* Properties of the abort timers                                          *)
(***************************************************************************)
\* Every call in flight has an armed or fired timer of a limit within lo..hi
\* milliseconds and has not run beyond it unaborted; a call that has left
\* its try block has no timer left.
TimersBounded(lo, hi) ==
    /\ \A slot \in DOMAIN pending :
           /\ pending[slot].running
           /\ pending[slot].timer \in {"armed", "fired"}
           /\ pending[slot].limit >= lo /\ pending[slot].limit <= hi
           /\ pending[slot].timer = "armed" =>
                  now - pending[slot].started <= pending[slot].limit
    /\ StepOf(op) = "exit" =>
           /\ result.timer = "cleared"
           /\ op.slot \notin DOMAIN pending
           /\ op.elapsed <= hi

\* C23 as stated: every provider call is aborted by a timer of a limit
\* between 8 and 30 seconds, cleared on every exit path of the call.
C23_TimersWithin30s == gateway \in Providers => TimersBounded(8000, 30000)

\* C23 amended: every provider call is aborted by a timer of a limit between
\* 8 and 60 seconds (60 for Overpass, 30 for the ORS matrix, 15 for the other
\* ORS calls, 8 for TfNSW and Google Routes), cleared on every exit path.
C23_TimersWithin60s == gateway \in Providers => TimersBounded(8000, 60000)

\* An Overpass call left by the abort error, 60 seconds after it started.
C23_Witness ==
    /\ gateway = "Overpass"
    /\ StepOf(op) = "exit"
    /\ op.aborted
    /\ op.exit = "throw"
    /\ op.elapsed = 60000
    /\ result.timer = "cleared"

(***************************************************************************)
(* Properties of the composite score                                       *)
(***************************************************************************)
Abs(x) == IF x < 0 THEN -x ELSE x

\* The score of an entry against the formula, for the record it was made
\* from.  With oldest the rent of the earliest year and rise the increase to
\* the latest, the exact value stress - min(5, bonds / 500) + penalty is
\* exact / (500 * oldest) percent; the score is the tenth nearest to it and
\* lies within 5 of the stress percentage.
ScoreAsSpecified(entry, suburb) ==
    LET trend   == suburb.rent_trend
        years   == DOMAIN trend
        first   == IF years = {} THEN 0
                   ELSE CHOOSE y \in years : \A z \in years : y <= z
        last    == IF years = {} THEN 0
                   ELSE CHOOSE y \in years : \A z \in years : y >= z
        applies == /\ Cardinality(years) >= 2
                   /\ trend[first] > 0
                   /\ 10 * (trend[last] - trend[first]) > trend[first]
        oldest  == IF applies THEN trend[first] ELSE 1
        penalty == IF applies THEN Min(5 * oldest, 10 * (trend[last] - oldest))
                   ELSE 0
        exact   == 50 * oldest * entry.rent_stress_pct
                       - oldest * Min(2500, suburb.total_bonds) + 500 * penalty
    IN  /\ IsNumber(entry.rent_stress_pct)
        /\ IsNumber(entry.affordability_score)
        /\ Abs(exact - 50 * oldest * entry.affordability_score) <= 25 * oldest
        /\ Abs(entry.affordability_score - entry.rent_stress_pct) <= 50

EveryScoreAsSpecified ==
    \A k \in 1..Len(result.suburbs) :
        \E i \in 1..Len(suburbs) :
            /\ suburbs[i].suburb_key = result.suburbs[k].suburb_key
            /\ ScoreAsSpecified(result.suburbs[k], suburbs[i])

\* C24: for every record GET /recommend emits, affordability_score is
\* rent_stress_pct - min(5, total_bonds / 500) + trend penalty rounded to one
\* decimal, the penalty being min(5, increase * 10) when the trend has two
\* years or more and rose by more than 10%, else 0; the score lies within 5
\* of rent_stress_pct.
C24_ScoreFormula == IsRecommend200 => EveryScoreAsSpecified

\* The same statement for whole-number bedrooms and sharing parameters only.
C24_WholeNumberScores ==
    (IsRecommend200 /\ IsCount(op.bedrooms) /\ IsCount(op.sharing)) =>
        EveryScoreAsSpecified

\* An entry scored with both a supply bonus and a trend penalty.
C24_BonusAndPenalty ==
    /\ IsRecommend200
    /\ IsCount(op.bedrooms) /\ IsCount(op.sharing)
    /\ \E k \in 1..Len(result.suburbs) :
           /\ result.suburbs[k].affordability_score
                  = result.suburbs[k].rent_stress_pct + 25
           /\ result.suburbs[k].total_bonds = 0
    /\ \E k \in 1..Len(result.suburbs) :
           result.suburbs[k].affordability_score
               = result.suburbs[k].rent_stress_pct - 50

(***************************************************************************)
(* getNearestStation (lib/amenities) and the nearest_station GET           *)
(* /api/recommend attaches to a candidate.  The station table is the data  *)
(* of the module; here it is an input, so that every small table is tried. *)
(***************************************************************************)
MaxStations == 2     \* stations in the table

\* The quantity haversineKm grows with: 124 times the squared distance in
\* coordinate units.  Two distances compare as their radicands do.
Radicand(lat1, lng1, lat2, lng2) ==
    124 * ((lat2 - lat1) * (lat2 - lat1) + (lng2 - lng1) * (lng2 - lng1))

\* Math.round(bestDist * 10) / 10 in tenths of a kilometre: the integer
\* nearest to the square root of radicand / 10000.
RoundedKm(radicand) ==
    LET fourfold == (4 * radicand) \div 10000
    IN  (SqrtIn(fourfold, 0, fourfold + 1) + 1) \div 2

\* Mutation of Nearer: a station as near as the best so far replaces it.
Nearer_orEqual(d, bestDist) == d <= bestDist

\* if (d < bestDist)
Nearer(d, bestDist) == d < bestDist

\* The loop over the table from index k on: best is the index of the best
\* station so far, 0 while bestDist is Infinity.
RECURSIVE NearestFrom(_, _, _, _, _)
NearestFrom(table, lat, lng, k, best) ==
    IF k > Len(table) THEN best
    ELSE LET d == Radicand(lat, lng, table[k].lat, table[k].lng)
             bestDist == Radicand(lat, lng, table[best].lat, table[best].lng)
         IN  NearestFrom(table, lat, lng, k + 1,
                         IF best = 0 \/ Nearer(d, bestDist) THEN k ELSE best)

\* null for an empty table, else the best station and its rounded distance.
getNearestStation(table, lat, lng) ==
    IF Len(table) = 0 THEN NullObj
    ELSE LET best == NearestFrom(table, lat, lng, 1, 0)
         IN  [station    |-> table[best],
              distanceKm |-> RoundedKm(Radicand(lat, lng, table[best].lat,
                                                table[best].lng))]

\* The nearest_station of a candidate: null when a coordinate is null or
\* undefined, or when getNearestStation returns null.
NearestStationOf(suburb, table) ==
    IF suburb.lat \in {Null, Undefined} \/ suburb.lng \in {Null, Undefined}
    THEN NullObj
    ELSE LET ns == getNearestStation(table, suburb.lat, suburb.lng)
         IN  IF ns = NullObj THEN NullObj
             ELSE [name        |-> ns.station.name,
                   distance_km |-> ns.distanceKm,
                   type        |-> ns.station.type]

AttachStation(i, table) ==
    /\ i \in 1..Len(suburbs)
    /\ op' = [name |-> "nearest_station", suburb |-> i, stations |-> table]
    /\ result' = NearestStationOf(suburbs[i], table)
    /\ UNCHANGED <<suburbs, client, gatewayVars>>

Station(name, lat, lng, type) ==
    [name |-> name, lat |-> lat, lng |-> lng, type |-> type]

\* Two stations at the same distance from the suburb at (100, 100), one on
\* the spot of the suburb at (400, 200), one far from all.
StationPool ==
    <<Station("North", 100, 200, "heavy_rail"),
      Station("East", 200, 100, "metro"),
      Station("Spot", 400, 200, "light_rail"),
      Station("Far", 900, 900, "ferry")>>

\* Every table of at most MaxStations different stations of the pool.
StationTables ==
    UNION {{[k \in 1..n |-> StationPool[order[k]]] :
               order \in {o \in [1..n -> 1..Len(StationPool)] :
                             \A a, b \in 1..n : a # b => o[a] # o[b]}} :
           n \in 0..MaxStations}

NextStations ==
    \E i \in 1..MaxSuburbs, table \in StationTables : AttachStation(i, table)

SpecStations == InitDataset /\ [][NextStations]_vars

(***************************************************************************)
(* Properties of nearest_station                                           *)
(***************************************************************************)
\* C25: for a candidate with known coordinates and a non-empty table the
\* nearest_station is a station no farther from the candidate than any
\* station of the table, the first such in table order, with that distance
\* rounded to one decimal; it is null only when a coordinate is unknown or
\* the table is empty.
C25_NearestStation ==
    op.name = "nearest_station" =>
        LET suburb == suburbs[op.suburb]
            table  == op.stations
            known  == IsNumber(suburb.lat) /\ IsNumber(suburb.lng)
            far(k) == Radicand(suburb.lat, suburb.lng, table[k].lat, table[k].lng)
        IN  /\ result = NullObj <=> (~known \/ table = <<>>)
            /\ result # NullObj =>
                   \E b \in 1..Len(table) :
                       /\ result.name = table[b].name
                       /\ result.type = table[b].type
                       /\ \A k \in 1..Len(table) : far(b) <= far(k)
                       /\ \A k \in 1..(b - 1) : far(b) < far(k)
                       /\ LET d == result.distance_km
                          IN  /\ d >= 0
                              /\ 4 * far(b) < (2 * d + 1) * (2 * d + 1) * 10000
                              /\ d > 0 =>
                                     (2 * d - 1) * (2 * d - 1) * 10000 <= 4 * far(b)

\* Two stations at the same distance: the first of the table is attached.
C25_Witness ==
    /\ op.name = "nearest_station"
    /\ Len(op.stations) = 2
    /\ op.stations[1].name = "East"
    /\ op.stations[2].name = "North"
    /\ suburbs[op.suburb].lat = 100
    /\ suburbs[op.suburb].lng = 100
    /\ result # NullObj
    /\ result.name = "East"
    /\ result.distance_km = 11

(***************************************************************************)
(* fetchDriving step by step                                               *)
(*                                                                         *)
(* pending[slot] is a call of fetchDriving suspended at a provider: the    *)
(* keys of the environment, the provider awaited, and for the properties   *)
(* the providers attempted so far and those that failed.                   *)
(***************************************************************************)
\* Mutation of FirstProvider: Google is preferred when it has a key.
FirstProvider_googleFirst(orsKey, googleKey) ==
    IF googleKey THEN "Google" ELSE IF orsKey THEN "ORS" ELSE "none"

\* if (orsKey) ... if (googleKey) ... throw
FirstProvider(orsKey, googleKey) ==
    IF orsKey THEN "ORS" ELSE IF googleKey THEN "Google" ELSE "none"

Unconfigured == Outcome("unconfigured", 0, 0, 0, 0)

\* fetchDriving is called.
DrivingStart(orsKey, googleKey) ==
    /\ gateway = "driving"
    /\ LET first == FirstProvider(orsKey, googleKey)
       IN  IF first = "none"
           THEN /\ op' = [name |-> "fetchDriving", step |-> "done",
                          orsKey |-> orsKey, googleKey |-> googleKey,
                          attempts |-> <<>>, failed |-> {}]
                /\ result' = fetchDriving(Unconfigured, Unconfigured)
                /\ pending' = pending
           ELSE /\ HasFreeSlot
                /\ op' = [name |-> "fetchDriving", step |-> "attempt",
                          orsKey |-> orsKey, googleKey |-> googleKey,
                          attempts |-> <<first>>, failed |-> {}]
                /\ result' = Unsettled
                /\ pending' = Suspend([name |-> "fetchDriving", orsKey |-> orsKey,
                                       googleKey |-> googleKey, awaiting |-> first,
                                       ors |-> Unconfigured,
                                       attempts |-> <<first>>, failed |-> {}])
    /\ UNCHANGED <<suburbs, client, gateway, cache, now>>

\* fetchOrsDirections settles: its result is returned, or the catch block
\* falls through to Google, or to the final throw.
DrivingOrsSettles(slot, outcome) ==
    /\ gateway = "driving"
    /\ slot \in DOMAIN pending
    /\ pending[slot].awaiting = "ORS"
    /\ LET call == pending[slot]
           ok   == fetchOrsDirections(outcome).ok
           failed == IF ok THEN call.failed ELSE call.failed \cup {"ORS"}
       IN  IF ok \/ ~call.googleKey
           THEN /\ op' = [name |-> "fetchDriving", step |-> "done",
                          orsKey |-> call.orsKey, googleKey |-> call.googleKey,
                          attempts |-> call.attempts, failed |-> failed]
                /\ result' = fetchDriving(outcome, Unconfigured)
                /\ pending' = Resume(slot)
           ELSE /\ op' = [name |-> "fetchDriving", step |-> "attempt",
                          orsKey |-> call.orsKey, googleKey |-> call.googleKey,
                          attempts |-> Append(call.attempts, "Google"),
                          failed |-> failed]
                /\ result' = Unsettled
                /\ pending' = [pending EXCEPT ![slot].awaiting = "Google",
                                              ![slot].ors = outcome,
                                              ![slot].attempts = Append(call.attempts, "Google"),
                                              ![slot].failed = failed]
    /\ UNCHANGED <<suburbs, client, gateway, cache, now>>

\* The Google Routes call settles: its result or its error is the branch's.
DrivingGoogleSettles(slot, outcome) ==
    /\ gateway = "driving"
    /\ slot \in DOMAIN pending
    /\ pending[slot].awaiting = "Google"
    /\ LET call == pending[slot]
           settled == fetchDriving(call.ors, outcome)
       IN  /\ op' = [name |-> "fetchDriving", step |-> "done",
                     orsKey |-> call.orsKey, googleKey |-> call.googleKey,
                     attempts |-> call.attempts,
                     failed |-> IF settled.ok THEN call.failed
                                ELSE call.failed \cup {"Google"}]
           /\ result' = settled
           /\ pending' = Resume(slot)
    /\ UNCHANGED <<suburbs, client, gateway, cache, now>>

\* Google answering with and without live traffic, refusing, and finding no
\* route.
GoogleRouteOutcomes ==
    {Outcome("ok", 200, 1, 1500, 16040), Outcome("ok", 200, 0, 1200, 16040),
     Outcome("http", 403, 0, 0, 0), Outcome("empty", 200, 0, 0, 0)}

InitDriving ==
    /\ suburbs = <<>>
    /\ op = NoOp
    /\ client = NoClient
    /\ result = NoResponse
    /\ gateway = "driving"
    /\ cache = <<>>
    /\ now = 0
    /\ pending = <<>>

NextDriving ==
    \/ \E orsKey \in BOOLEAN, googleKey \in BOOLEAN : DrivingStart(orsKey, googleKey)
    \/ \E slot \in 1..MaxInFlight, outcome \in RouteOutcomes :
           DrivingOrsSettles(slot, outcome)
    \/ \E slot \in 1..MaxInFlight, outcome \in GoogleRouteOutcomes :
           DrivingGoogleSettles(slot, outcome)

SpecDriving == InitDriving /\ [][NextDriving]_vars

(***************************************************************************)
(* Properties of fetchDriving                                              *)
(***************************************************************************)
Configured(o) ==
    (IF o.orsKey THEN {"ORS"} ELSE {}) \cup (IF o.googleKey THEN {"Google"} ELSE {})

\* C26: ORS is attempted first whenever it has a key; Google is attempted
\* only when it has a key and ORS has none or has failed, and then always;
\* no provider is attempted twice; the branch fails exactly when every
\* provider that has a key has failed (none having a key included).
C26_ProviderOrder ==
    op.name = "fetchDriving" =>
        LET tried == {op.attempts[k] : k \in 1..Len(op.attempts)}
        IN  /\ tried \subseteq Configured(op)
            /\ Cardinality(tried) = Len(op.attempts)
            /\ op.orsKey => Len(op.attempts) >= 1 /\ op.attempts[1] = "ORS"
            /\ "Google" \in tried <=>
                   (op.googleKey /\ (~op.orsKey \/ "ORS" \in op.failed))
            /\ op.failed \subseteq tried
            /\ op.step = "done" =>
                   /\ result.settled
                   /\ ~result.ok <=> op.failed = Configured(op)
                   /\ result.ok => tried \ op.failed # {}

\* ORS failed, Google was tried after it and answered.
C26_Witness ==
    /\ op.name = "fetchDriving"
    /\ op.step = "done"
    /\ op.attempts = <<"ORS", "Google">>
    /\ op.failed = {"ORS"}
    /\ result.ok
    /\ result.value.traffic_note = "with current traffic"

(***************************************************************************)
(* Properties of the commute response                                      *)
(***************************************************************************)
OwnStraightLine ==
    result.body.straight_line_km
        = haversineKm(op.request.from_lat, op.request.from_lng,
                      op.request.to_lat, op.request.to_lng)

\* C27: in every 200 response of GET /commute, served from the cache or
\* not, straight_line_km is the haversine distance between the coordinates
\* of that same request.
C27_OwnStraightLine ==
    (op.name = "GET /commute" /\ result.status = 200) => OwnStraightLine

\* The same statement for the responses built from the provider lookups.
C27_FreshStraightLine ==
    (op.name = "GET /commute" /\ result.status = 200 /\ StepOf(op) = "respond") =>
        OwnStraightLine

\* A response served from the cache to the request that populated it.
C27_CacheHit ==
    /\ op.name = "GET /commute"
    /\ result.status = 200
    /\ StepOf(op) = "receive"
    /\ op.lookup = "hit"
    /\ OwnStraightLine

(***************************************************************************)
(* Properties of GET /recommend for parameters that are not whole numbers  *)
(***************************************************************************)
FiniteRents ==
    \A k \in 1..Len(result.suburbs) :
        LET entry == result.suburbs[k]
        IN  /\ IsNumber(entry.total_rent)
            /\ IsNumber(entry.per_person_rent)
            /\ IsNumber(entry.rent_stress_pct)
            /\ \E i \in 1..Len(suburbs) :
                   /\ suburbs[i].suburb_key = entry.suburb_key
                   /\ \E key \in DOMAIN suburbs[i].rent :
                          suburbs[i].rent[key] = entry.total_rent

\* C28: for every request that passes validation, bedrooms=2.5 and
\* sharing=2.5 included, every record of the response has a numeric
\* total_rent, per_person_rent and rent_stress_pct read from an existing rent
\* field of the suburb; a suburb whose looked-up field does not exist is
\* left out.
C28_FiniteRents == IsRecommend200 => FiniteRents

\* The same statement for whole-number bedrooms and sharing parameters only.
C28_WholeNumberRents ==
    (IsRecommend200 /\ IsCount(op.bedrooms) /\ IsCount(op.sharing)) => FiniteRents

\* A whole-number request that returned records.
C28_SomeRecords ==
    /\ IsRecommend200
    /\ IsCount(op.bedrooms) /\ IsCount(op.sharing)
    /\ op.sharing = 20
    /\ Len(result.suburbs) >= 1

(***************************************************************************)
(* The results page (app/results): the effect that fetches the live        *)
(* commute of the listed postcodes.  client holds the component's state    *)
(* (data, commuteCache, commuteLoading), its ref (commuteRequestedRef) and *)
(* network, the number of /api/commute requests the page has sent for each *)
(* postcode since it was mounted.  pending holds the runs of the effect    *)
(* suspended at Promise.allSettled: the batch awaited, the batch still to  *)
(* come, the fetches of the awaited batch that have settled, and the       *)
(* cancelled flag of the run's closure.                                    *)
(***************************************************************************)
FIRST_BATCH == 6
TOP_COMMUTE == 20
MaxSearches == 2     \* recommendation responses loaded while mounted

Range(seq) == {seq[k] : k \in 1..Len(seq)}

\* A suburb of the response as the effect reads it: its postcode and
\* whether lat and lng are both there.
Listed(postcode, located) == [postcode |-> postcode, located |-> located]

\* The recommendation response: its suburbs and whether it carries the
\* coordinates of a workplace.
ResultsData(list, workplace) == [suburbs |-> list, workplace |-> workplace]

\* hasWorkplace of a response that is there (data is not null).
hasWorkplace(data) == data.workplace

\* The loop that collects toFetch: the postcodes of the first suburbs with
\* coordinates, each once, that the ref does not hold yet.
RECURSIVE ToFetchFrom(_, _, _, _, _)
ToFetchFrom(enriched, k, seen, requested, toFetch) ==
    IF k > Len(enriched) \/ Len(toFetch) >= TOP_COMMUTE THEN toFetch
    ELSE LET s == enriched[k]
         IN  IF ~s.located \/ s.postcode \in seen
             THEN ToFetchFrom(enriched, k + 1, seen, requested, toFetch)
             ELSE IF s.postcode \in requested
             THEN ToFetchFrom(enriched, k + 1, seen \cup {s.postcode},
                              requested, toFetch)
             ELSE ToFetchFrom(enriched, k + 1, seen \cup {s.postcode},
                              requested, Append(toFetch, s.postcode))

\* toFetch.slice(0, FIRST_BATCH) and toFetch.slice(FIRST_BATCH)
Batch1(toFetch) == SubSeq(toFetch, 1, Min(FIRST_BATCH, Len(toFetch)))
Batch2(toFetch) == SubSeq(toFetch, Min(FIRST_BATCH, Len(toFetch)) + 1, Len(toFetch))

\* fetchSingle on every postcode of a batch: one request each.
FetchBatch(network, batch) ==
    [pc \in DOMAIN network \cup Range(batch) |->
        (IF pc \in DOMAIN network THEN network[pc] ELSE 0)
            + (IF pc \in Range(batch) THEN 1 ELSE 0)]

\* A run of the effect suspended at Promise.allSettled(batch.map(fetchSingle)).
EffectRun(batch, rest, cancelled) ==
    [name |-> "commute effect", batch |-> batch, rest |-> rest,
     fulfilled |-> {}, rejected |-> {}, cancelled |-> cancelled]

\* applyResults: nothing for a cancelled run; otherwise the fulfilled
\* lookups go to commuteCache and leave commuteLoading.
applyResults(component, run) ==
    IF run.cancelled THEN component
    ELSE [component EXCEPT !.commuteCache = @ \cup run.fulfilled,
                           !.commuteLoading = @ \ run.fulfilled]

\* The cleanup of the last run (cancelled = true in its closure).  Every
\* earlier run was cleaned up when the run after it started.
Cleanup == [i \in DOMAIN pending |-> [pending[i] EXCEPT !.cancelled = TRUE]]

\* setData(d) by the recommendation effect, for the first search or after
\* the search parameters changed: the component renders, the previous run
\* of the commute effect is cleaned up and the effect runs on the new data
\* up to its first await.
DataLoaded(data) ==
    /\ client.name = "results page"
    /\ client.searches < MaxSearches
    /\ HasFreeSlot
    /\ LET toFetch == IF hasWorkplace(data)
                      THEN ToFetchFrom(data.suburbs, 1, {},
                                       client.commuteRequestedRef, <<>>)
                      ELSE <<>>
           loaded  == [client EXCEPT !.data = data, !.searches = @ + 1]
       IN  /\ op' = [name |-> "setData", data |-> data, toFetch |-> toFetch]
           /\ result' = Range(Batch1(toFetch))
           /\ IF toFetch = <<>>
              THEN /\ client' = loaded
                   /\ pending' = Cleanup
              ELSE /\ client' =
                        [loaded EXCEPT
                            !.commuteRequestedRef = @ \cup Range(toFetch),
                            !.commuteLoading = @ \cup Range(toFetch),
                            !.network = FetchBatch(@, Batch1(toFetch))]
                   /\ pending' =
                        [i \in DOMAIN pending \cup {FreeSlot} |->
                            IF i = FreeSlot
                            THEN EffectRun(Batch1(toFetch), Batch2(toFetch), FALSE)
                            ELSE Cleanup[i]]
    /\ UNCHANGED <<suburbs, gateway, cache, now>>

\* The /api/commute request of one postcode settles: fulfilled when the
\* body parsed as JSON (an error body included), rejected when the network
\* failed or the body was not JSON.  When it is the last of its batch,
\* Promise.allSettled resolves and fetchProgressive goes on: applyResults,
\* then the second batch unless the run is cancelled or has none.
FetchSettles(slot, postcode, fulfilled) ==
    /\ client.name = "results page"
    /\ slot \in DOMAIN pending
    /\ postcode \in Range(pending[slot].batch)
    /\ postcode \notin pending[slot].fulfilled \cup pending[slot].rejected
    /\ LET run == IF fulfilled
                  THEN [pending[slot] EXCEPT !.fulfilled = @ \cup {postcode}]
                  ELSE [pending[slot] EXCEPT !.rejected = @ \cup {postcode}]
           last == run.fulfilled \cup run.rejected = Range(run.batch)
           applied == applyResults(client, run)
       IN  /\ op' = [name |-> "settle", slot |-> slot, postcode |-> postcode,
                     fulfilled |-> fulfilled, last |-> last,
                     cancelled |-> run.cancelled,
                     batch |-> IF last THEN run.fulfilled ELSE {}]
           /\ IF ~last
              THEN /\ pending' = [pending EXCEPT ![slot] = run]
                   /\ client' = client
                   /\ result' = {}
              ELSE IF run.cancelled \/ run.rest = <<>>
              THEN /\ pending' = Resume(slot)
                   /\ client' = applied
                   /\ result' = {}
              ELSE /\ pending' = [pending EXCEPT
                                     ![slot] = EffectRun(run.rest, <<>>, FALSE)]
                   /\ client' = [applied EXCEPT
                                    !.network = FetchBatch(@, run.rest)]
                   /\ result' = Range(run.rest)
    /\ UNCHANGED <<suburbs, gateway, cache, now>>

\* Responses of /api/recommend: seven postcodes with coordinates and a
\* workplace (a second batch), a list that repeats a postcode, has a
\* suburb without coordinates and a new postcode, and a list without a
\* workplace.
ResultPages ==
    {ResultsData(<<Listed("2000", TRUE), Listed("2001", TRUE),
                   Listed("2002", TRUE), Listed("2003", TRUE),
                   Listed("2004", TRUE), Listed("2005", TRUE),
                   Listed("2006", TRUE)>>, TRUE),
     ResultsData(<<Listed("2000", TRUE), Listed("2000", TRUE),
                   Listed("2007", FALSE), Listed("2008", TRUE)>>, TRUE),
     ResultsData(<<Listed("2000", TRUE), Listed("2008", TRUE)>>, FALSE)}

\* The postcodes of those responses.
ListedPostcodes ==
    UNION {{s.postcode : s \in Range(data.suburbs)} : data \in ResultPages}

\* The page as mounted: no data yet, nothing requested.
InitResults ==
    /\ suburbs = <<>>
    /\ op = NoOp
    /\ result = {}
    /\ NoGateway
    /\ client = [name |-> "results page", data |-> Null, searches |-> 0,
                 commuteRequestedRef |-> {}, commuteLoading |-> {},
                 commuteCache |-> {}, network |-> <<>>]

NextResults ==
    \/ \E data \in ResultPages : DataLoaded(data)
    \/ \E slot \in 1..MaxInFlight, postcode \in ListedPostcodes,
          fulfilled \in BOOLEAN :
           FetchSettles(slot, postcode, fulfilled)

SpecResults == InitResults /\ [][NextResults]_vars

(***************************************************************************)
(* Properties of the results page                                          *)
(***************************************************************************)
\* No postcode has been requested from /api/commute more than once.
RequestedOnce == \A pc \in DOMAIN client.network : client.network[pc] <= 1

\* The request of the postcode was sent and has settled with its batch.
HasSettled(pc) ==
    /\ pc \in DOMAIN client.network
    /\ \A slot \in DOMAIN pending : pc \notin Range(pending[slot].batch)

\* No postcode whose request has settled is still in commuteLoading.
LoadingCleared == \A pc \in client.commuteLoading : ~HasSettled(pc)

\* C29: on the results page no postcode's commute lookup is requested more
\* than once while the page is mounted, and no postcode stays in
\* commuteLoading after its /api/commute request has settled, fulfilled or
\* rejected, the effect cleaned up and re-run in between or not.
C29_OnceAndCleared ==
    client.name = "results page" => (RequestedOnce /\ LoadingCleared)

\* The first half alone: at most one request per postcode and mount.
C29_RequestedOnce == client.name = "results page" => RequestedOnce

\* The second half for the fulfilled requests of a run that was not
\* cleaned up: applyResults has taken them out of commuteLoading.
C29_FulfilledCleared ==
    (op.name = "settle" /\ op.last /\ ~op.cancelled) =>
        /\ op.batch \cap client.commuteLoading = {}
        /\ op.batch \subseteq client.commuteCache

\* A run that was not cleaned up applied a batch with a fulfilled request.
C29_BatchApplied ==
    /\ op.name = "settle" /\ op.last /\ ~op.cancelled
    /\ op.batch # {}
    /\ client.searches = 2

(***************************************************************************)
(* The chat widget (components/ChatBot): sendMessage.  client holds the    *)
(* component's state (input, streaming, the number of messages shown and   *)
(* the content of the last assistant message) and sent, the number of      *)
(* /api/chat requests it has made.  pending holds the calls                *)
(* of sendMessage suspended at an await: at fetch, at res.json() of a      *)
(* response that is not ok, or at reader.read().  A click or a key press   *)
(* is handled on the component as rendered after the event before it, so   *)
(* the streaming a call reads is the one the last update set.              *)
(***************************************************************************)
MaxSends == 2        \* messages the widget sends while mounted

\* Mutation of Ignored: only an empty message is ignored.
Ignored_emptyOnly(trimmed, streaming) == trimmed = <<>>

\* if (!trimmed || streaming) return;
Ignored(trimmed, streaming) == trimmed = <<>> \/ streaming

\* finally { setStreaming(false) }: the call is over.
Finally(component) == [component EXCEPT !.streaming = FALSE]

\* onChange of the textarea: setInput(e.target.value).
Type(text) ==
    /\ client.name = "chat widget"
    /\ text # client.input
    /\ op' = [name |-> "setInput", text |-> text]
    /\ result' = NoResponse
    /\ client' = [client EXCEPT !.input = text]
    /\ UNCHANGED <<suburbs, gateway, cache, now, pending>>

\* A suggestion offered while no message is shown.
SUGGESTIONS == {<<"h", "i">>}

\* sendMessage(text) up to its first await, called with the input (Enter,
\* the send button) or with a suggestion: a call that is not ignored
\* appends the user's message and the assistant's empty one, clears the
\* input, sets streaming and posts the history to /api/chat.
SendMessage(text) ==
    /\ client.name = "chat widget"
    /\ text = client.input \/ (client.messages = 0 /\ text \in SUGGESTIONS)
    /\ LET ignored == Ignored(trim(text), client.streaming)
       IN  /\ op' = [name |-> "sendMessage", text |-> text, ignored |-> ignored]
           /\ IF ignored
              THEN /\ client' = client
                   /\ pending' = pending
              ELSE /\ client.sent < MaxSends
                   /\ HasFreeSlot
                   /\ client' = [client EXCEPT !.messages = @ + 2,
                                               !.reply = "",
                                               !.input = <<>>,
                                               !.streaming = TRUE,
                                               !.sent = @ + 1]
                   /\ pending' = Suspend([name |-> "sendMessage",
                                          await |-> "fetch", chunks |-> 0])
    /\ result' = NoResponse
    /\ UNCHANGED <<suburbs, gateway, cache, now>>

\* fetch resolves with a response: not ok (the call goes on to read the
\* error body), ok with a body to read, or ok without a body ("No reader"
\* is thrown, caught, and the call is over).
FetchResolves(slot, response) ==
    /\ client.name = "chat widget"
    /\ slot \in DOMAIN pending
    /\ pending[slot].await = "fetch"
    /\ op' = [name |-> "fetch resolves", slot |-> slot, response |-> response]
    /\ result' = NoResponse
    /\ IF response = "no body"
       THEN /\ client' = Finally([client EXCEPT !.reply = "couldn't connect"])
            /\ pending' = Resume(slot)
       ELSE /\ client' = client
            /\ pending' = [pending EXCEPT ![slot].await =
                              IF response = "not ok" THEN "json" ELSE "read"]
    /\ UNCHANGED <<suburbs, gateway, cache, now>>

\* fetch rejects (the network failed): catch, then finally.
FetchRejects(slot) ==
    /\ client.name = "chat widget"
    /\ slot \in DOMAIN pending
    /\ pending[slot].await = "fetch"
    /\ op' = [name |-> "fetch rejects", slot |-> slot]
    /\ result' = NoResponse
    /\ client' = Finally([client EXCEPT !.reply = "couldn't connect"])
    /\ pending' = Resume(slot)
    /\ UNCHANGED <<suburbs, gateway, cache, now>>

\* res.json() of a response that is not ok settles, parsed or not (a
\* rejection is replaced by {error: "Request failed"}): the message is
\* filled with the error, the call returns, then finally.
ErrorBodySettles(slot, parsed) ==
    /\ client.name = "chat widget"
    /\ slot \in DOMAIN pending
    /\ pending[slot].await = "json"
    /\ op' = [name |-> "error body", slot |-> slot, parsed |-> parsed]
    /\ result' = NoResponse
    /\ client' = Finally([client EXCEPT !.reply =
                              IF parsed THEN "something went wrong: error"
                              ELSE "something went wrong: Request failed"])
    /\ pending' = Resume(slot)
    /\ UNCHANGED <<suburbs, gateway, cache, now>>

\* reader.read() resolves with a chunk: the assistant's message grows and
\* the loop awaits the next read.
ReadChunk(slot) ==
    /\ client.name = "chat widget"
    /\ slot \in DOMAIN pending
    /\ pending[slot].await = "read"
    /\ pending[slot].chunks < MaxChunks
    /\ op' = [name |-> "read chunk", slot |-> slot]
    /\ result' = NoResponse
    /\ client' = [client EXCEPT !.reply = "accumulated"]
    /\ pending' = [pending EXCEPT ![slot].chunks = @ + 1]
    /\ UNCHANGED <<suburbs, gateway, cache, now>>

\* reader.read() resolves with done (break, then finally) or rejects (the
\* stream errored: catch, then finally).
ReadEnds(slot, done) ==
    /\ client.name = "chat widget"
    /\ slot \in DOMAIN pending
    /\ pending[slot].await = "read"
    /\ op' = [name |-> "read ends", slot |-> slot, done |-> done]
    /\ result' = NoResponse
    /\ client' = Finally(IF done THEN client
                          ELSE [client EXCEPT !.reply = "couldn't connect"])
    /\ pending' = Resume(slot)
    /\ UNCHANGED <<suburbs, gateway, cache, now>>

\* What the user types: nothing, blanks, a message, a message in blanks.
WidgetTexts == {<<>>, <<" ">>, <<"h", "i">>, <<" ", "h", "i", " ">>}

FetchResponses == {"ok", "not ok", "no body"}

\* The widget as mounted.
InitWidget ==
    /\ suburbs = <<>>
    /\ op = NoOp
    /\ result = NoResponse
    /\ NoGateway
    /\ client = [name |-> "chat widget", input |-> <<>>, streaming |-> FALSE,
                 messages |-> 0, reply |-> "", sent |-> 0]

NextWidget ==
    \/ \E text \in WidgetTexts : Type(text)
    \/ \E text \in WidgetTexts : SendMessage(text)
    \/ \E slot \in 1..MaxInFlight, response \in FetchResponses :
           FetchResolves(slot, response)
    \/ \E slot \in 1..MaxInFlight : FetchRejects(slot)
    \/ \E slot \in 1..MaxInFlight, parsed \in BOOLEAN : ErrorBodySettles(slot, parsed)
    \/ \E slot \in 1..MaxInFlight : ReadChunk(slot)
    \/ \E slot \in 1..MaxInFlight, done \in BOOLEAN : ReadEnds(slot, done)

SpecWidget == InitWidget /\ [][NextWidget]_vars

(***************************************************************************)
(* Properties of the chat widget                                           *)
(***************************************************************************)
\* The /api/chat requests of the widget that are outstanding.
Outstanding == DOMAIN pending

\* C30: in the chat widget at most one /api/chat request is outstanding at
\* any time, the streaming flag is true exactly while one is (so it is
\* false again after a completed stream, a response that is not ok, a
\* network error or a read error), and a sendMessage called while a request
\* is outstanding changes nothing.
C30_OneInFlight ==
    [][client.name = "chat widget" =>
          /\ Cardinality(Outstanding') <= 1
          /\ client'.streaming <=> Outstanding' # {}
          /\ (op'.name = "sendMessage" /\ Outstanding # {}) =>
                 (pending' = pending /\ client' = client)]_vars

\* A message was sent while the request of the one before was outstanding,
\* and was ignored.
C30_Witness ==
    /\ client.name = "chat widget"
    /\ op.name = "sendMessage" /\ op.ignored /\ trim(op.text) # <<>>
    /\ Outstanding # {}
    /\ client.sent = 1

====
